---- MODULE Spec2Model ----
(***************************************************************************)
(* Model of the BFB form builder core: the form/field data model           *)
(* (app/models/form_model.py), the field factory                           *)
(* (app/models/field_factory.py), the mutation engine of FormService       *)
(* (app/services/form_service.py), the WordPress client and its dialog     *)
(* (app/services/wp_client.py, app/ui/wordpress_dialog.py) and the field   *)
(* editor panel (app/ui/field_editor_panel.py).                            *)
(*                                                                         *)
(* Encoding of Python values:                                              *)
(*   - a Python list is a TLA+ sequence; Python index i is TLA+ index i+1; *)
(*   - Optional[int] is an integer or the sentinel None;                   *)
(*   - Optional[str] is a string or the sentinel NoneStr;                  *)
(*   - Optional[List[..]] and optional objects are NoneObj (<<>>) or       *)
(*     Some(v) (<<v>>), so that None and the empty list stay distinct.     *)
(***************************************************************************)
EXTENDS Integers, Sequences, FiniteSets, TLC

VARIABLES
    title,      \* FormModel.title of the current form
    fields,     \* FormModel.fields of the current form (ordered)
    call,       \* history: the last FormService call and its arguments
    result,     \* history: outcome of the last call (OK or the error raised)
    pre,        \* history: the form as it was when the last call started
    assigned,   \* history: every identifier a field of the form carried
                \* at some time before the current call
    added,      \* history: the last add_field_to_form, kept while it is undone
    loop,       \* caller loop "move_field_up until it fails"
    updown,     \* caller sequence "move_field_up, then move_field_down"
    settings,   \* the attributes of the current form other than title and
                \* fields
    validation, \* history: the lists the last two validate_form calls
                \* returned
    files,      \* the file system: the document stored at each path
    returned,   \* history: the value the last save, export, load or import
                \* call returned
    site,       \* the WordPress site: its Gravity Forms forms and the write
                \* requests it received
    dialog,     \* the WordPressDialog that is open on the current form
    panel       \* the FieldEditorPanel: the field it edits and its controls

vars ==
    <<title, fields, call, result, pre, assigned, added, loop, updown,
      settings, validation, files, returned, site, dialog, panel>>

\* what the field mutation operations of FormService never touch
outside_editor ==
    <<updown, settings, validation, files, returned, site, dialog, panel>>

----------------------------------------------------------------------------
(* Bounds of the model *)

MaxFields == 3
MaxId == 3
MaxDocFields == 2
MaxValidatedFields == 2
MaxFiles == 2
MaxFactoryFields == 2
MaxEdits == 1
MaxChoices == 2
MaxRemoteForms == 3

----------------------------------------------------------------------------
(* Python None *)

None == -999
NoneStr == "<None>"
NoneObj == << >>

Some(v) == << v >>

----------------------------------------------------------------------------
(* form_model.py *)

FieldType ==
    { "text", "textarea", "number", "email", "phone", "website", "select",
      "multiselect", "radio", "checkbox", "name", "address", "date", "time",
      "fileupload", "hidden", "html", "section", "page" }

Choice(text, value) == [text |-> text, value |-> value, isSelected |-> FALSE]

InputItem(id, label, name, placeholder) ==
    [id |-> id, label |-> label, name |-> name, placeholder |-> placeholder]

FieldModel(id, type, label) ==
    [ id                |-> id,
      type              |-> type,
      label             |-> label,
      adminLabel        |-> "",
      description       |-> "",
      isRequired        |-> FALSE,
      placeholder       |-> "",
      defaultValue      |-> "",
      inputs            |-> NoneObj,
      choices           |-> NoneObj,
      cssClass          |-> "",
      size              |-> "medium",
      maxLength         |-> None,
      visibility        |-> "visible",
      allowsPrepopulate |-> FALSE,
      inputName         |-> NoneStr,
      content           |-> "",
      displayOnly       |-> FALSE,
      conditionalLogic  |-> NoneObj,
      validation        |-> NoneObj,
      maxFileSize       |-> None,
      allowedExtensions |-> NoneStr,
      multipleFiles     |-> FALSE ]

\* BaseModel.model_dump: the dict of all attributes of a field
model_dump(field) == [k \in DOMAIN field |-> field[k]]

\* BaseModel.model_validate: a FieldModel built from a dict; an attribute the
\* dict does not carry takes its declared default
model_validate(data) ==
    LET defaults == FieldModel(None, "text", "")
    IN  [k \in DOMAIN defaults |->
            IF k \in DOMAIN data THEN data[k] ELSE defaults[k]]

NotificationSettings ==
    [ id         |-> NoneStr,
      name       |-> "Admin Notification",
      event      |-> "form_submission",
      to         |-> "{admin_email}",
      subject    |-> "New submission from {form_title}",
      message    |-> "{all_fields}",
      from_name  |-> "{site_title}",
      from_email |-> "{admin_email}",
      replyTo    |-> NoneStr,
      bcc        |-> NoneStr,
      isActive   |-> TRUE ]

ConfirmationSettings ==
    [ id          |-> NoneStr,
      name        |-> "Default Confirmation",
      type        |-> "message",
      message     |->
          "Thanks for contacting us! We will get in touch with you shortly.",
      url         |-> NoneStr,
      pageId      |-> None,
      queryString |-> NoneStr,
      isActive    |-> TRUE,
      isDefault   |-> TRUE ]

\* the attributes of a FormModel as declared, before model_post_init
DeclaredForm(form_title, form_fields) ==
    [ id                   |-> None,
      title                |-> form_title,
      description          |-> "",
      version              |-> "1.0",
      fields               |-> form_fields,
      button               |-> [type |-> "text", text |-> "Submit"],
      labelPlacement       |-> "top_label",
      descriptionPlacement |-> "below",
      requiredIndicator    |-> "text",
      cssClass             |-> "",
      enableHoneypot       |-> TRUE,
      enableAnimation      |-> FALSE,
      save                 |-> FALSE,
      limitEntries         |-> FALSE,
      limitEntriesCount    |-> None,
      limitEntriesMessage  |-> "",
      scheduleForm         |-> FALSE,
      scheduleStart        |-> NoneStr,
      scheduleEnd          |-> NoneStr,
      scheduleMessage      |-> "",
      notifications        |-> << >>,
      confirmations        |-> << >> ]

\* a variant that leaves the lists as they are
model_post_init_skipped(self) == self

\* FormModel.model_post_init: an empty notification or confirmation list is
\* replaced by a list holding the default entry
model_post_init(self) ==
    [self EXCEPT
        !.notifications = IF @ = << >> THEN << NotificationSettings >> ELSE @,
        !.confirmations = IF @ = << >> THEN << ConfirmationSettings >> ELSE @]

\* FormModel(title=..., fields=...)
FormModel(form_title, form_fields) ==
    model_post_init(DeclaredForm(form_title, form_fields))

\* a variant that leaves out the attributes that are None
form_model_dump_exclude_none(form) ==
    [k \in { a \in DOMAIN form :
                 ~(/\ a \in { "id", "limitEntriesCount" }
                   /\ form[a] = None)
                 /\ ~(/\ a \in { "description", "cssClass",
                                  "limitEntriesMessage", "scheduleStart",
                                  "scheduleEnd", "scheduleMessage" }
                      /\ form[a] = NoneStr) } |->
        IF k = "fields"
        THEN [i \in 1..Len(form.fields) |-> model_dump(form.fields[i])]
        ELSE form[k]]

\* FormModel.model_dump: the dict of all attributes of a form, the nested
\* models dumped in turn
form_model_dump(form) ==
    [k \in DOMAIN form |->
        IF k = "fields"
        THEN [i \in 1..Len(form.fields) |-> model_dump(form.fields[i])]
        ELSE form[k]]

\* a nested model built from a dict: an attribute the dict does not carry
\* takes its declared default
validate_against(data, defaults) ==
    [k \in DOMAIN defaults |->
        IF k \in DOMAIN data THEN data[k] ELSE defaults[k]]

\* FormModel.model_validate: a FormModel built from a dict that carries a
\* title; the nested models are built in turn, then model_post_init runs
form_model_validate(data) ==
    LET defaults == DeclaredForm("", << >>)
        built ==
            [k \in DOMAIN defaults |->
                IF k \notin DOMAIN data THEN defaults[k]
                ELSE IF k = "fields"
                THEN [i \in 1..Len(data.fields) |->
                         model_validate(data.fields[i])]
                ELSE IF k = "notifications"
                THEN [i \in 1..Len(data.notifications) |->
                         validate_against(data.notifications[i],
                                          NotificationSettings)]
                ELSE IF k = "confirmations"
                THEN [i \in 1..Len(data.confirmations) |->
                         validate_against(data.confirmations[i],
                                          ConfirmationSettings)]
                ELSE data[k]]
    IN  model_post_init(built)

\* the form whose title and fields are the given ones and whose other
\* attributes are form_settings, and the other attributes of a form
FormOf(form_title, form_fields, form_settings) ==
    [k \in DOMAIN form_settings \cup { "title", "fields" } |->
        IF k = "title" THEN form_title
        ELSE IF k = "fields" THEN form_fields
        ELSE form_settings[k]]

SettingsOf(form) == [k \in DOMAIN form \ { "title", "fields" } |-> form[k]]

----------------------------------------------------------------------------
(* The declared types of the attributes, which decide how json writes a    *)
(* value and how pydantic reads it back                                    *)

Scalar(kind) == [kind |-> kind, optional |-> FALSE, of |-> << >>]
IntType == Scalar("int")
StrType == Scalar("str")
BoolType == Scalar("bool")
AnyType == Scalar("any")
ListOf(schema) == [kind |-> "list", optional |-> FALSE, of |-> schema]
ObjectOf(schema) == [kind |-> "object", optional |-> FALSE, of |-> schema]
Optional(ty) == [ty EXCEPT !.optional = TRUE]

ChoiceSchema ==
    [text |-> StrType, value |-> Optional(StrType), isSelected |-> BoolType]

InputItemSchema ==
    [id |-> StrType, label |-> Optional(StrType), name |-> Optional(StrType),
     placeholder |-> Optional(StrType)]

FieldModelSchema ==
    [ id                |-> Optional(IntType),
      type              |-> StrType,
      label             |-> StrType,
      adminLabel        |-> Optional(StrType),
      description       |-> Optional(StrType),
      isRequired        |-> BoolType,
      placeholder       |-> Optional(StrType),
      defaultValue      |-> Optional(StrType),
      inputs            |-> Optional(ListOf(InputItemSchema)),
      choices           |-> Optional(ListOf(ChoiceSchema)),
      cssClass          |-> Optional(StrType),
      size              |-> Optional(StrType),
      maxLength         |-> Optional(IntType),
      visibility        |-> StrType,
      allowsPrepopulate |-> BoolType,
      inputName         |-> Optional(StrType),
      content           |-> Optional(StrType),
      displayOnly       |-> BoolType,
      conditionalLogic  |-> Optional(AnyType),
      validation        |-> Optional(AnyType),
      maxFileSize       |-> Optional(IntType),
      allowedExtensions |-> Optional(StrType),
      multipleFiles     |-> BoolType ]

NotificationSchema ==
    [ id |-> Optional(StrType), name |-> StrType, event |-> StrType, to |-> StrType,
      subject |-> StrType, message |-> StrType, from_name |-> StrType,
      from_email |-> StrType, replyTo |-> Optional(StrType), bcc |-> Optional(StrType),
      isActive |-> BoolType ]

ConfirmationSchema ==
    [ id |-> Optional(StrType), name |-> StrType, type |-> StrType,
      message |-> Optional(StrType), url |-> Optional(StrType),
      pageId |-> Optional(IntType), queryString |-> Optional(StrType),
      isActive |-> BoolType, isDefault |-> BoolType ]

FormModelSchema ==
    [ id                   |-> Optional(IntType),
      title                |-> StrType,
      description          |-> Optional(StrType),
      version              |-> StrType,
      fields               |-> ListOf(FieldModelSchema),
      button               |-> ObjectOf([type |-> StrType, text |-> StrType]),
      labelPlacement       |-> StrType,
      descriptionPlacement |-> StrType,
      requiredIndicator    |-> StrType,
      cssClass             |-> Optional(StrType),
      enableHoneypot       |-> BoolType,
      enableAnimation      |-> BoolType,
      save                 |-> BoolType,
      limitEntries         |-> BoolType,
      limitEntriesCount    |-> Optional(IntType),
      limitEntriesMessage  |-> Optional(StrType),
      scheduleForm         |-> BoolType,
      scheduleStart        |-> Optional(StrType),
      scheduleEnd          |-> Optional(StrType),
      scheduleMessage      |-> Optional(StrType),
      notifications        |-> ListOf(NotificationSchema),
      confirmations        |-> ListOf(ConfirmationSchema) ]

\* Python None as a value of the given declared type
NoneOf(ty) ==
    CASE ty.kind = "int" -> None
      [] ty.kind = "str" -> NoneStr
      [] OTHER           -> NoneObj

----------------------------------------------------------------------------
(* json.dump and json.load.  A JSON document is the tree of its values:    *)
(* <<"null">>, <<"bool", b>>, <<"number", n>>, <<"string", s>>,            *)
(* <<"array", elements>> and <<"object", members>>.                        *)

JsonNull == << "null" >>

\* json.dump of a Python value: None is written as null, a list as an
\* array, a dict as an object with the same keys
RECURSIVE json_dump(_, _)
json_dump(value, ty) ==
    IF ty.optional /\ value = NoneOf(ty)
    THEN JsonNull
    ELSE LET v == IF ty.optional /\ ty.kind \in { "list", "object", "any" }
                  THEN value[1]
                  ELSE value
         IN  CASE ty.kind = "int"  -> << "number", v >>
               [] ty.kind = "str"  -> << "string", v >>
               [] ty.kind = "bool" -> << "bool", v >>
               [] ty.kind = "list" ->
                    << "array",
                       [i \in 1..Len(v) |-> json_dump(v[i], ObjectOf(ty.of))] >>
               [] ty.kind = "object" ->
                    << "object",
                       [k \in DOMAIN v |-> json_dump(v[k], ty.of[k])] >>
               [] OTHER -> << "raw", v >>

\* json.load of a document: null is read as None, an array as a list, an
\* object as a dict with the same keys
RECURSIVE json_load(_, _)
json_load(document, ty) ==
    IF document = JsonNull
    THEN NoneOf(ty)
    ELSE LET v ==
                 CASE ty.kind = "list" ->
                        [i \in 1..Len(document[2]) |->
                            json_load(document[2][i], ObjectOf(ty.of))]
                   [] ty.kind = "object" ->
                        [k \in DOMAIN document[2] |->
                            json_load(document[2][k], ty.of[k])]
                   [] OTHER -> document[2]
         IN  IF ty.optional /\ ty.kind \in { "list", "object", "any" }
             THEN Some(v)
             ELSE v

----------------------------------------------------------------------------
(* field_factory.py *)

_get_default_label(field_type) ==
    CASE field_type = "text"        -> "Untitled"
      [] field_type = "textarea"    -> "Message"
      [] field_type = "number"      -> "Number"
      [] field_type = "email"       -> "Email"
      [] field_type = "phone"       -> "Phone"
      [] field_type = "website"     -> "Website"
      [] field_type = "select"      -> "Dropdown"
      [] field_type = "multiselect" -> "Multi Select"
      [] field_type = "radio"       -> "Radio Buttons"
      [] field_type = "checkbox"    -> "Checkboxes"
      [] field_type = "name"        -> "Name"
      [] field_type = "address"     -> "Address"
      [] field_type = "date"        -> "Date"
      [] field_type = "time"        -> "Time"
      [] field_type = "fileupload"  -> "File Upload"
      [] field_type = "hidden"      -> "Hidden Field"
      [] field_type = "html"        -> "HTML Block"
      [] field_type = "section"     -> "Section Break"
      [] field_type = "page"        -> "Page Break"
      [] OTHER                      -> "Field"

DefaultChoices ==
    << Choice("First Choice", "first"),
       Choice("Second Choice", "second"),
       Choice("Third Choice", "third") >>

NameInputs ==
    << InputItem("3.1", "First", "first", "First"),
       InputItem("3.2", "Last", "last", "Last") >>

\* a variant that applies no type-specific configuration
create_field_unconfigured(field_type, field_id) ==
    FieldModel(field_id, field_type, _get_default_label(field_type))

AddressInputs ==
    << InputItem("1.1", "Street Address", "street", "Street Address"),
       InputItem("1.2", "Address Line 2", "street2", "Address Line 2"),
       InputItem("1.3", "City", "city", "City"),
       InputItem("1.4", "State / Province", "state", "State / Province"),
       InputItem("1.5", "ZIP / Postal Code", "zip", "ZIP / Postal Code"),
       InputItem("1.6", "Country", "country", "Country") >>

create_field(field_type, field_id) ==
    LET base_field == FieldModel(field_id, field_type,
                                 _get_default_label(field_type))
    IN  CASE field_type = "text" ->
               [base_field EXCEPT !.placeholder = "Enter text here"]
          [] field_type = "textarea" ->
               [base_field EXCEPT !.placeholder = "Enter your message here"]
          [] field_type = "email" ->
               [base_field EXCEPT !.placeholder = "Enter your email address"]
          [] field_type = "phone" ->
               [base_field EXCEPT !.placeholder = "Enter your phone number"]
          [] field_type = "website" ->
               [base_field EXCEPT !.placeholder = "https://example.com"]
          [] field_type \in {"select", "multiselect"} ->
               [base_field EXCEPT !.choices = Some(DefaultChoices),
                                  !.placeholder = "Select an option"]
          [] field_type = "radio" ->
               [base_field EXCEPT !.choices = Some(DefaultChoices)]
          [] field_type = "checkbox" ->
               [base_field EXCEPT !.choices = Some(DefaultChoices)]
          [] field_type = "name" ->
               [base_field EXCEPT !.inputs = Some(NameInputs)]
          [] field_type = "address" ->
               [base_field EXCEPT !.inputs = Some(AddressInputs)]
          [] field_type = "fileupload" ->
               [base_field EXCEPT
                    !.allowedExtensions = "jpg,jpeg,png,gif,pdf,doc,docx,txt",
                    !.maxFileSize = 20]
          [] field_type = "hidden" ->
               [base_field EXCEPT !.visibility = "hidden",
                                  !.label = "Hidden Field"]
          [] field_type = "html" ->
               [base_field EXCEPT
                    !.content = "<p>Add your HTML content here</p>",
                    !.displayOnly = TRUE]
          [] field_type = "section" ->
               [base_field EXCEPT !.displayOnly = TRUE,
                                  !.description = "This is a section break"]
          [] field_type = "page" ->
               [base_field EXCEPT
                    !.displayOnly = TRUE,
                    !.label = "Page Break",
                    !.description = "This will create a new page"]
          [] OTHER -> base_field

----------------------------------------------------------------------------
(* Python built-ins used by the service *)

\* str.strip(): the string without leading and trailing blanks
lstrip(s) ==
    IF \A i \in 1..Len(s) : SubSeq(s, i, i) = " "
    THEN ""
    ELSE SubSeq(s,
                CHOOSE i \in 1..Len(s) :
                    /\ SubSeq(s, i, i) # " "
                    /\ \A j \in 1..(i - 1) : SubSeq(s, j, j) = " ",
                Len(s))

rstrip(s) ==
    IF \A i \in 1..Len(s) : SubSeq(s, i, i) = " "
    THEN ""
    ELSE LET n == Len(s)
             \* the number of trailing blanks
             k == CHOOSE k \in 0..(n - 1) :
                      /\ SubSeq(s, n - k, n - k) # " "
                      /\ \A j \in 0..(k - 1) : SubSeq(s, n - j, n - j) = " "
         IN  SubSeq(s, 1, n - k)

strip(s) == rstrip(lstrip(s))

\* max() of a non-empty set of integers
Max(S) == CHOOSE m \in S : \A n \in S : n <= m

\* list.insert(index, x): a negative index counts from the end, and an index
\* beyond either end is clamped to that end
list_insert(list, index, x) ==
    LET n    == Len(list)
        from == IF index < 0 THEN index + n ELSE index
        at   == IF from < 0 THEN 0 ELSE IF from > n THEN n ELSE from
    IN  SubSeq(list, 1, at) \o << x >> \o SubSeq(list, at + 1, n)

\* list.append(x)
list_append(list, x) == Append(list, x)

\* a, b = b, a on list[i] and list[j] (Python indices)
list_swap(list, i, j) ==
    [list EXCEPT ![i + 1] = list[j + 1], ![j + 1] = list[i + 1]]

\* Python index of the first field whose id equals field_id, -1 when there
\* is none: the "for i, field in enumerate(form.fields)" searches
index_of(form_fields, field_id) ==
    IF \E k \in 1..Len(form_fields) : form_fields[k].id = field_id
    THEN (CHOOSE k \in 1..Len(form_fields) :
             /\ form_fields[k].id = field_id
             /\ \A j \in 1..(k - 1) : form_fields[j].id # field_id) - 1
    ELSE -1

----------------------------------------------------------------------------
(* form_service.py: results of a call *)

OK == "ok"
NotFound == "Field with ID not found"
AtTop == "Field is already at the top"
AtBottom == "Field is already at the bottom"

\* what a call leaves behind: form.fields and the FormServiceError raised
Outcome(form_fields, error) == [fields |-> form_fields, error |-> error]

----------------------------------------------------------------------------
(* form_service.py: form lifecycle *)

DefaultTitle == "Untitled Form"

\* a variant that keeps the argument as it is
create_new_form_untrimmed(title_arg) ==
    IF title_arg = NoneStr \/ title_arg = "" THEN DefaultTitle ELSE title_arg

\* create_new_form: the title of the new form (its field list is empty);
\* NoneStr is an argument that is omitted or None
create_new_form(title_arg) ==
    LET t == IF title_arg = NoneStr \/ title_arg = "" \/ strip(title_arg) = ""
             THEN DefaultTitle
             ELSE title_arg
    IN  strip(t)

\* the form create_new_form returns
new_form(title_arg) ==
    [FormModel(create_new_form(title_arg), << >>) EXCEPT !.description = ""]

----------------------------------------------------------------------------
(* form_service.py: validate_form *)

TitleLimit == 255
LabelLimit == 255
FileSizeLimit == 100

TitleRequired == "Form title is required"
TitleTooLong == "Form title must be 255 characters or less"
LabelRequired == ": Field label is required"
LabelTooLong == ": Field label must be 255 characters or less"
DuplicateId == ": Duplicate field ID "
ChoicesRequired == ": Choice fields must have at least one choice"
ChoiceTextRequired == ": Choice text is required"
FileSizeTooLarge == ": Maximum file size cannot exceed 100MB"
ContentRequired == ": HTML fields must have content"

ChoiceTypes == { "select", "multiselect", "radio", "checkbox" }

\* f"Field {i + 1}" for the Python index i
field_prefix(i) == "Field " \o ToString(i + 1)

\* "not s or not s.strip()" for an Optional[str]
is_blank(s) == s = NoneStr \/ s = "" \/ strip(s) = ""

\* a variant that measures the title as it is, blanks included
title_errors_untrimmed(form_title) ==
    (IF is_blank(form_title) THEN << TitleRequired >> ELSE << >>)
    \o (IF Len(form_title) > TitleLimit THEN << TitleTooLong >> ELSE << >>)

\* the title checks
title_errors(form_title) ==
    (IF is_blank(form_title) THEN << TitleRequired >> ELSE << >>)
    \o (IF Len(strip(form_title)) > TitleLimit
        THEN << TitleTooLong >>
        ELSE << >>)

\* a variant that reports an identifier the first time it is seen
duplicate_id_errors_on_first(field, i, field_ids) ==
    IF field.id # None /\ field.id \notin field_ids
    THEN << field_prefix(i) \o DuplicateId \o ToString(field.id) >>
    ELSE << >>

\* the duplicate check of the field at Python index i, field_ids being the
\* identifiers seen before it
duplicate_id_errors(field, i, field_ids) ==
    IF field.id # None /\ field.id \in field_ids
    THEN << field_prefix(i) \o DuplicateId \o ToString(field.id) >>
    ELSE << >>

\* field_ids after the duplicate check of the field
seen_ids(field, field_ids) ==
    IF field.id # None THEN field_ids \cup { field.id } ELSE field_ids

\* the label checks of the field at Python index i
label_errors(field, i) ==
    (IF is_blank(field.label)
     THEN << field_prefix(i) \o LabelRequired >>
     ELSE << >>)
    \o (IF Len(field.label) > LabelLimit
        THEN << field_prefix(i) \o LabelTooLong >>
        ELSE << >>)

\* the check of one choice at Python index j
choice_text_errors(choice, i, j) ==
    IF is_blank(choice.text)
    THEN << field_prefix(i) \o ", Choice " \o ToString(j + 1)
               \o ChoiceTextRequired >>
    ELSE << >>

RECURSIVE choices_text_errors(_, _, _)
choices_text_errors(choices, i, j) ==
    IF j >= Len(choices)
    THEN << >>
    ELSE choice_text_errors(choices[j + 1], i, j)
             \o choices_text_errors(choices, i, j + 1)

\* a variant that stops at the first choice
choice_errors_first_only(field, i) ==
    IF field.type \in ChoiceTypes
    THEN IF field.choices = NoneObj \/ field.choices = Some(<< >>)
         THEN << field_prefix(i) \o ChoicesRequired >>
         ELSE choice_text_errors(field.choices[1][1], i, 0)
    ELSE << >>

\* the checks of a choice-kind field
choice_errors(field, i) ==
    IF field.type \in ChoiceTypes
    THEN IF field.choices = NoneObj \/ field.choices = Some(<< >>)
         THEN << field_prefix(i) \o ChoicesRequired >>
         ELSE choices_text_errors(field.choices[1], i, 0)
    ELSE << >>

\* the check of a file upload field
file_upload_errors(field, i) ==
    IF /\ field.type = "fileupload"
       /\ field.maxFileSize # None
       /\ field.maxFileSize # 0
       /\ field.maxFileSize > FileSizeLimit
    THEN << field_prefix(i) \o FileSizeTooLarge >>
    ELSE << >>

\* the check of an HTML field
html_errors(field, i) ==
    IF field.type = "html" /\ is_blank(field.content)
    THEN << field_prefix(i) \o ContentRequired >>
    ELSE << >>

\* a variant that checks the label before the identifier
field_errors_label_first(field, i, field_ids) ==
    label_errors(field, i)
        \o duplicate_id_errors(field, i, field_ids)
        \o choice_errors(field, i)
        \o file_upload_errors(field, i)
        \o html_errors(field, i)

\* one pass of the loop over form.fields: the errors of the field at Python
\* index i, in the order of the checks
field_errors(field, i, field_ids) ==
    duplicate_id_errors(field, i, field_ids)
        \o label_errors(field, i)
        \o choice_errors(field, i)
        \o file_upload_errors(field, i)
        \o html_errors(field, i)

\* the loop over form.fields from Python index i on
RECURSIVE fields_errors(_, _, _)
fields_errors(form_fields, i, field_ids) ==
    IF i >= Len(form_fields)
    THEN << >>
    ELSE LET field == form_fields[i + 1]
         IN  field_errors(field, i, field_ids)
                 \o fields_errors(form_fields, i + 1, seen_ids(field, field_ids))

\* what a validate_form call leaves behind: the form and the list returned
Validated(form, errors) == [form |-> form, errors |-> errors]

\* a variant that returns as soon as it has an error
validate_form_first_error(form) ==
    LET errors == title_errors(form.title) \o fields_errors(form.fields, 0, {})
    IN  Validated(form, IF errors = << >> THEN << >> ELSE << errors[1] >>)

\* a variant that trims the title of the form it is given
validate_form_trimming(form) ==
    LET trimmed == [form EXCEPT !.title = strip(@)]
    IN  Validated(trimmed,
                  title_errors(trimmed.title)
                      \o fields_errors(trimmed.fields, 0, {}))

validate_form(form) ==
    Validated(form,
              title_errors(form.title) \o fields_errors(form.fields, 0, {}))

----------------------------------------------------------------------------
(* form_service.py: save_form, load_form, export_form, import_form.  The   *)
(* file system is a function from paths to the documents stored there.     *)

FormsDir == "BFB Forms"

SaveFailed == "Failed to save form"
LoadFailed == "Failed to load form"
ExportFailed == "Failed to export form"
ImportFailed == "Failed to import form"

\* self.forms_dir / filename
in_forms_dir(filename) == FormsDir \o "/" \o filename

\* str.endswith
endswith(s, suffix) ==
    /\ Len(s) >= Len(suffix)
    /\ SubSeq(s, Len(s) - Len(suffix) + 1, Len(s)) = suffix

\* the characters for which c.isalnum() holds
Alphanumerics ==
    { "a", "b", "c", "d", "e", "f", "g", "h", "i", "j", "k", "l", "m",
      "n", "o", "p", "q", "r", "s", "t", "u", "v", "w", "x", "y", "z",
      "A", "B", "C", "D", "E", "F", "G", "H", "I", "J", "K", "L", "M",
      "N", "O", "P", "Q", "R", "S", "T", "U", "V", "W", "X", "Y", "Z",
      "0", "1", "2", "3", "4", "5", "6", "7", "8", "9" }

\* "".join(c for c in s if c.isalnum() or c in (' ', '-', '_'))
RECURSIVE safe_chars(_)
safe_chars(s) ==
    IF s = ""
    THEN ""
    ELSE LET c == SubSeq(s, 1, 1)
         IN  (IF c \in Alphanumerics \cup { " ", "-", "_" } THEN c ELSE "")
                 \o safe_chars(SubSeq(s, 2, Len(s)))

\* s.replace(' ', '_')
RECURSIVE replace_blanks(_)
replace_blanks(s) ==
    IF s = ""
    THEN ""
    ELSE LET c == SubSeq(s, 1, 1)
         IN  (IF c = " " THEN "_" ELSE c) \o replace_blanks(SubSeq(s, 2, Len(s)))

\* the filename save_form derives from the title of the form
filename_from_title(form_title) ==
    LET safe_title == replace_blanks(rstrip(safe_chars(form_title)))
    IN  (IF safe_title = "" THEN "untitled_form" ELSE safe_title) \o ".json"

\* Path.suffix and Path.stem of a file name
path_suffix(name) ==
    LET dots == { i \in 1..Len(name) : SubSeq(name, i, i) = "." }
    IN  IF dots = {} \/ Max(dots) = 1 \/ Max(dots) = Len(name)
        THEN ""
        ELSE SubSeq(name, Max(dots), Len(name))

path_stem(name) == SubSeq(name, 1, Len(name) - Len(path_suffix(name)))

\* a variant that looks at no file: the name with the counter appended
unused_name_unchecked(paths, original, counter) ==
    path_stem(original) \o "_" \o ToString(counter) \o path_suffix(original)

\* "while file_path.exists()": the first of name_1, name_2, ... from counter
\* on that no file of the forms directory has
RECURSIVE unused_name(_, _, _)
unused_name(paths, original, counter) ==
    LET candidate == path_stem(original) \o "_" \o ToString(counter)
                         \o path_suffix(original)
    IN  IF in_forms_dir(candidate) \notin paths
        THEN candidate
        ELSE unused_name(paths, original, counter + 1)

\* the document json.dump writes for a form
document_of(form) == json_dump(form_model_dump(form), ObjectOf(FormModelSchema))

\* what a save, export, load or import call leaves behind: the file
\* system, the form it was given, the value it returns (a file name, a
\* form) and the FormServiceError it raises
Persisted(fs, form, filename, loaded, error) ==
    [files |-> fs, form |-> form, filename |-> filename, loaded |-> loaded,
     error |-> error]

\* the file system with the document written at the path
write_file(fs, path, document) ==
    [q \in DOMAIN fs \cup { path } |-> IF q = path THEN document ELSE fs[q]]

\* a variant that validates whatever the caller asks for
save_form_always_validating(fs, form, filename, validate) ==
    LET checked == validate_form(form)
    IN  IF checked.errors # << >>
        THEN Persisted(fs, checked.form, NoneStr, NoneObj, SaveFailed)
        ELSE LET given    == IF filename = NoneStr
                             THEN filename_from_title(form.title)
                             ELSE filename
                 name     == IF endswith(given, ".json")
                             THEN given
                             ELSE given \o ".json"
                 used     == IF in_forms_dir(name) \in DOMAIN fs
                             THEN unused_name(DOMAIN fs, name, 1)
                             ELSE name
             IN  Persisted(write_file(fs, in_forms_dir(used),
                                      document_of(checked.form)),
                           checked.form, used, NoneObj, OK)

save_form(fs, form, filename, validate) ==
    LET checked == IF validate THEN validate_form(form) ELSE Validated(form, << >>)
    IN  IF checked.errors # << >>
        THEN Persisted(fs, checked.form, NoneStr, NoneObj, SaveFailed)
        ELSE LET given    == IF filename = NoneStr
                             THEN filename_from_title(form.title)
                             ELSE filename
                 name     == IF endswith(given, ".json")
                             THEN given
                             ELSE given \o ".json"
                 used     == IF in_forms_dir(name) \in DOMAIN fs
                             THEN unused_name(DOMAIN fs, name, 1)
                             ELSE name
             IN  Persisted(write_file(fs, in_forms_dir(used),
                                      document_of(checked.form)),
                           checked.form, used, NoneObj, OK)

export_form(fs, form, export_path, validate) ==
    LET checked == IF validate THEN validate_form(form) ELSE Validated(form, << >>)
    IN  IF checked.errors # << >>
        THEN Persisted(fs, checked.form, NoneStr, NoneObj, ExportFailed)
        ELSE Persisted(write_file(fs, export_path, document_of(checked.form)),
                       checked.form, NoneStr, NoneObj, OK)

\* the form read from the document at a path
read_form(fs, path) ==
    form_model_validate(json_load(fs[path], ObjectOf(FormModelSchema)))

load_form(fs, form, filename) ==
    IF in_forms_dir(filename) \notin DOMAIN fs
    THEN Persisted(fs, form, NoneStr, NoneObj, LoadFailed)
    ELSE Persisted(fs, form, NoneStr,
                   Some(read_form(fs, in_forms_dir(filename))), OK)

import_form(fs, form, import_path) ==
    IF import_path \notin DOMAIN fs
    THEN Persisted(fs, form, NoneStr, NoneObj, ImportFailed)
    ELSE Persisted(fs, form, NoneStr, Some(read_form(fs, import_path)), OK)

----------------------------------------------------------------------------
(* wp_client.py: conversion to the Gravity Forms format and publish_form   *)

\* a dict without keys
NoKeys == [k \in {} |-> NoneObj]

\* "s or default" for an Optional[str]
or_default(s, default) == IF s = NoneStr \/ s = "" THEN default ELSE s

\* the table from BFB field types to Gravity Forms types
type_mapping == [kind \in FieldType |-> kind]

_convert_field_to_gravity_forms(field) ==
    LET gf_type ==
            IF field.type \in DOMAIN type_mapping
            THEN type_mapping[field.type]
            ELSE NoneStr
        gf_field ==
            [ id           |-> field.id,
              type         |-> gf_type,
              label        |-> field.label,
              adminLabel   |-> or_default(field.adminLabel, ""),
              description  |-> or_default(field.description, ""),
              isRequired   |-> field.isRequired,
              size         |-> or_default(field.size, "medium"),
              cssClass     |-> or_default(field.cssClass, ""),
              placeholder  |-> or_default(field.placeholder, ""),
              defaultValue |-> or_default(field.defaultValue, "") ]
        choices ==
            IF field.choices # NoneObj /\ field.choices # Some(<< >>)
            THEN [choices |->
                     [j \in 1..Len(field.choices[1]) |->
                         LET choice == field.choices[1][j]
                         IN  [text       |-> choice.text,
                              value      |-> or_default(choice.value,
                                                        choice.text),
                              isSelected |-> choice.isSelected]]]
            ELSE NoKeys
        inputs ==
            IF field.inputs # NoneObj /\ field.inputs # Some(<< >>)
            THEN [inputs |->
                     [j \in 1..Len(field.inputs[1]) |->
                         LET inp == field.inputs[1][j]
                         IN  [id          |-> inp.id,
                              label       |-> or_default(inp.label, ""),
                              name        |-> or_default(inp.name, ""),
                              placeholder |-> or_default(inp.placeholder,
                                                         "")]]]
            ELSE NoKeys
        upload ==
            IF field.type = "fileupload"
            THEN (IF field.maxFileSize # None /\ field.maxFileSize # 0
                  THEN [maxFileSize |-> field.maxFileSize]
                  ELSE NoKeys)
                 @@ (IF field.allowedExtensions # NoneStr
                        /\ field.allowedExtensions # ""
                     THEN [allowedExtensions |-> field.allowedExtensions]
                     ELSE NoKeys)
                 @@ [multipleFiles |-> field.multipleFiles]
            ELSE NoKeys
        html ==
            IF field.type = "html"
            THEN [content |-> or_default(field.content, "")]
            ELSE NoKeys
        max_length ==
            IF field.maxLength # None /\ field.maxLength # 0
            THEN [maxLength |-> field.maxLength]
            ELSE NoKeys
        logic ==
            IF field.conditionalLogic # NoneObj
            THEN [conditionalLogic |-> field.conditionalLogic[1]]
            ELSE NoKeys
    IN  IF gf_type # NoneStr
        THEN Some(gf_field @@ choices @@ inputs @@ upload @@ html
                      @@ max_length @@ logic)
        ELSE NoneObj

_convert_confirmation(conf) ==
    [ id          |-> conf.id,
      name        |-> conf.name,
      type        |-> conf.type,
      message     |-> conf.message,
      url         |-> conf.url,
      pageId      |-> conf.pageId,
      queryString |-> conf.queryString,
      isActive    |-> conf.isActive,
      isDefault   |-> conf.isDefault ]

_convert_notification(notif) ==
    [ id       |-> notif.id,
      name     |-> notif.name,
      event    |-> notif.event,
      to       |-> notif.to,
      subject  |-> notif.subject,
      message  |-> notif.message,
      from     |-> notif.from_email,
      fromName |-> notif.from_name,
      replyTo  |-> notif.replyTo,
      bcc      |-> notif.bcc,
      isActive |-> notif.isActive ]

\* a variant that leaves out the section and page breaks
convert_fields_without_breaks(form_fields) ==
    LET kept == SelectSeq(form_fields,
                          LAMBDA field : field.type \notin { "section", "page" })
    IN  [i \in 1..Len(kept) |-> _convert_field_to_gravity_forms(kept[i])[1]]

\* the converted fields, a field without a Gravity Forms type left out
RECURSIVE convert_fields(_)
convert_fields(form_fields) ==
    IF form_fields = << >>
    THEN << >>
    ELSE _convert_field_to_gravity_forms(Head(form_fields))
             \o convert_fields(Tail(form_fields))

_convert_to_gravity_forms_format(form) ==
    [ title                |-> form.title,
      description          |-> or_default(form.description, ""),
      labelPlacement       |-> form.labelPlacement,
      descriptionPlacement |-> form.descriptionPlacement,
      button               |-> form.button,
      fields               |-> convert_fields(form.fields),
      version              |-> form.version,
      cssClass             |-> or_default(form.cssClass, ""),
      enableHoneypot       |-> form.enableHoneypot,
      enableAnimation      |-> form.enableAnimation,
      save                 |-> form.save,
      limitEntries         |-> form.limitEntries,
      limitEntriesCount    |-> form.limitEntriesCount,
      limitEntriesMessage  |-> form.limitEntriesMessage,
      scheduleForm         |-> form.scheduleForm,
      scheduleStart        |-> form.scheduleStart,
      scheduleEnd          |-> form.scheduleEnd,
      scheduleMessage      |-> form.scheduleMessage,
      confirmations        |->
          [i \in 1..Len(form.confirmations) |->
              _convert_confirmation(form.confirmations[i])],
      notifications        |->
          [i \in 1..Len(form.notifications) |->
              _convert_notification(form.notifications[i])] ]

\* a form of the site as list_forms reports it
RemoteForm(id, form_title) == [id |-> id, title |-> form_title]

\* a write request of publish_form
Request(method, id, body) == [method |-> method, id |-> id, body |-> body]

PublishFailed == "Failed to publish form"
ListFailed == "Failed to list forms"

\* a variant that keeps the last form with the title
existing_form_id_last(remote_forms, form_title) ==
    IF \E k \in 1..Len(remote_forms) : remote_forms[k].title = form_title
    THEN remote_forms[CHOOSE k \in 1..Len(remote_forms) :
                          /\ remote_forms[k].title = form_title
                          /\ \A j \in (k + 1)..Len(remote_forms) :
                                 remote_forms[j].title # form_title].id
    ELSE None

\* the search of publish_form in the forms of the site: the id of the
\* first form with the title, None when there is none
existing_form_id(remote_forms, form_title) ==
    IF \E k \in 1..Len(remote_forms) : remote_forms[k].title = form_title
    THEN remote_forms[CHOOSE k \in 1..Len(remote_forms) :
                          /\ remote_forms[k].title = form_title
                          /\ \A j \in 1..(k - 1) :
                                 remote_forms[j].title # form_title].id
    ELSE None

\* the id the site gives to a form it creates
new_remote_id(remote_forms) ==
    IF remote_forms = << >>
    THEN 1
    ELSE Max({ remote_forms[k].id : k \in 1..Len(remote_forms) }) + 1

\* what a publish_form call leaves behind: the forms of the site, the
\* write requests sent, the id of the form in the response, and the error
\* raised.  The outcome is what the
\* network and the site make of the requests: "ok", "list_failed" (the GET
\* of list_forms fails) or "write_failed" (the PUT or POST is refused).
Published(remote_forms, requests, id, error) ==
    [forms |-> remote_forms, requests |-> requests, id |-> id,
     error |-> error]

wp_publish_form(remote_forms, form, update_existing, outcome) ==
    LET gf_form == _convert_to_gravity_forms_format(form)
        found   == IF update_existing
                   THEN existing_form_id(remote_forms, form.title)
                   ELSE None
    IN  IF update_existing /\ outcome = "list_failed"
        THEN Published(remote_forms, << >>, None, ListFailed)
        ELSE IF found # None /\ found # 0
        THEN LET request == Request("PUT", found, gf_form)
             IN  IF outcome = "write_failed"
                 THEN Published(remote_forms, << request >>, None,
                                PublishFailed)
                 ELSE Published(
                          [k \in 1..Len(remote_forms) |->
                              IF remote_forms[k].id = found
                              THEN RemoteForm(found, form.title)
                              ELSE remote_forms[k]],
                          << request >>, found, OK)
        ELSE LET request == Request("POST", None, gf_form)
             IN  IF outcome = "write_failed"
                 THEN Published(remote_forms, << request >>, None,
                                PublishFailed)
                 ELSE Published(
                          Append(remote_forms,
                                 RemoteForm(new_remote_id(remote_forms),
                                            form.title)),
                          << request >>, new_remote_id(remote_forms), OK)

----------------------------------------------------------------------------
(* field_editor_panel.py.  The panel is the record of its current field    *)
(* (the row of the field in the form, which it shares with the form) and    *)
(* of the values its controls hold.                                         *)

LowerCase == "abcdefghijklmnopqrstuvwxyz"
UpperCase == "ABCDEFGHIJKLMNOPQRSTUVWXYZ"

\* the place of a character in an alphabet, 0 when it is not there
place_in(alphabet, c) ==
    LET places == { i \in 1..Len(alphabet) : SubSeq(alphabet, i, i) = c }
    IN  IF places = {} THEN 0 ELSE CHOOSE i \in places : TRUE

to_lower(c) ==
    IF place_in(UpperCase, c) = 0
    THEN c
    ELSE SubSeq(LowerCase, place_in(UpperCase, c), place_in(UpperCase, c))

to_upper(c) ==
    IF place_in(LowerCase, c) = 0
    THEN c
    ELSE SubSeq(UpperCase, place_in(LowerCase, c), place_in(LowerCase, c))

is_letter(c) == place_in(LowerCase, c) # 0 \/ place_in(UpperCase, c) # 0

\* str.lower
RECURSIVE lower(_)
lower(s) ==
    IF s = "" THEN "" ELSE to_lower(SubSeq(s, 1, 1)) \o lower(SubSeq(s, 2, Len(s)))

\* str.title: a letter that follows no letter is upper case, the others
\* lower case
RECURSIVE title_after(_, _)
title_after(s, in_word) ==
    IF s = ""
    THEN ""
    ELSE LET c == SubSeq(s, 1, 1)
         IN  (IF in_word THEN to_lower(c) ELSE to_upper(c))
                 \o title_after(SubSeq(s, 2, Len(s)), is_letter(c))

title_case(s) == title_after(s, FALSE)

\* the items of size_combo
SizeItems == { "Small", "Medium", "Large" }

\* the choice kinds, for which show_editor shows the choices group
ChoiceKinds == { "select", "multiselect", "radio", "checkbox" }

\* the panel after setup_ui: no current field, every control as it was
\* constructed, the combo box on its first item
NoPanel ==
    [ current_field           |-> None,
      label_edit              |-> "",
      admin_label_edit        |-> "",
      description_edit        |-> "",
      required_check          |-> FALSE,
      size_combo              |-> "Small",
      css_class_edit          |-> "",
      placeholder_edit        |-> "",
      default_value_edit      |-> "",
      max_length_spin         |-> 0,
      max_file_size_spin      |-> 20,
      allowed_extensions_edit |-> "",
      multiple_files_check    |-> FALSE,
      content_edit            |-> "",
      choices_list            |-> << >>,
      currentRow              |-> -1,
      edited                  |-> "",
      edits                   |-> 0 ]

\* the panel and the fields of the form, as a handler finds and leaves them
Edited(p, form_fields) == [panel |-> p, fields |-> form_fields]

\* the current field of the panel
current_field(state) == state.fields[state.panel.current_field + 1]

\* update_field: every bound attribute of the current field takes the
\* value of its control
update_field(state) ==
    IF state.panel.current_field = None
    THEN state
    ELSE LET p == state.panel
         IN  Edited(p,
                 [state.fields EXCEPT ![p.current_field + 1] =
                     [@ EXCEPT
                         !.label = p.label_edit,
                         !.adminLabel = p.admin_label_edit,
                         !.description = p.description_edit,
                         !.isRequired = p.required_check,
                         !.size = lower(p.size_combo),
                         !.cssClass = p.css_class_edit,
                         !.placeholder = p.placeholder_edit,
                         !.defaultValue = p.default_value_edit,
                         !.maxLength = IF p.max_length_spin > 0
                                       THEN p.max_length_spin
                                       ELSE None,
                         !.maxFileSize = p.max_file_size_spin,
                         !.allowedExtensions = p.allowed_extensions_edit,
                         !.multipleFiles = p.multiple_files_check,
                         !.content = p.content_edit]])

\* a control is given a value: when the value is new to it (for a QTextEdit,
\* on every setPlainText) its change signal runs update_field, which
\* blockSignals on the panel itself does not hold back
set_control(state, control, value, always) ==
    LET given == Edited([state.panel EXCEPT ![control] = value], state.fields)
    IN  IF always \/ value # state.panel[control]
        THEN update_field(given)
        ELSE given

\* QSpinBox.setValue keeps the value inside the range of the spin box (for
\* the file size, whose range starts at 0.1, the smallest integer in it)
spin_value(value, lowest, highest) ==
    IF value < lowest THEN lowest
    ELSE IF value > highest THEN highest
    ELSE value

\* the order in which populate_field_data gives the controls their values
PopulateOrder ==
    << "label_edit", "admin_label_edit", "description_edit", "required_check",
       "size_combo", "css_class_edit", "placeholder_edit",
       "default_value_edit", "max_length_spin", "max_file_size_spin",
       "allowed_extensions_edit", "multiple_files_check", "content_edit" >>

\* one control takes the value of its attribute, as the field holds it at
\* that moment
populate_control(state, control) ==
    LET field == current_field(state)
    IN  CASE control = "label_edit" ->
               set_control(state, control, or_default(field.label, ""), FALSE)
          [] control = "admin_label_edit" ->
               set_control(state, control, or_default(field.adminLabel, ""),
                           FALSE)
          [] control = "description_edit" ->
               set_control(state, control, or_default(field.description, ""),
                           TRUE)
          [] control = "required_check" ->
               set_control(state, control, field.isRequired, FALSE)
          [] control = "size_combo" ->
               LET size_text == IF field.size \in { NoneStr, "" }
                                THEN "Medium"
                                ELSE title_case(field.size)
               IN  IF size_text \in SizeItems
                   THEN set_control(state, control, size_text, FALSE)
                   ELSE state
          [] control = "css_class_edit" ->
               set_control(state, control, or_default(field.cssClass, ""),
                           FALSE)
          [] control = "placeholder_edit" ->
               set_control(state, control, or_default(field.placeholder, ""),
                           FALSE)
          [] control = "default_value_edit" ->
               set_control(state, control, or_default(field.defaultValue, ""),
                           FALSE)
          [] control = "max_length_spin" ->
               set_control(state, control,
                           IF field.maxLength \in { None, 0 }
                           THEN 0
                           ELSE spin_value(field.maxLength, 0, 9999),
                           FALSE)
          [] control = "max_file_size_spin" ->
               IF field.maxFileSize \in { None, 0 }
               THEN state
               ELSE set_control(state, control,
                                spin_value(field.maxFileSize, 1, 100), FALSE)
          [] control = "allowed_extensions_edit" ->
               set_control(state, control,
                           or_default(field.allowedExtensions, ""), FALSE)
          [] control = "multiple_files_check" ->
               set_control(state, control, field.multipleFiles, FALSE)
          [] control = "content_edit" ->
               set_control(state, control, or_default(field.content, ""), TRUE)

\* populate_choices: the list widget shows the choices of the field and has
\* no current row
populate_choices(state) ==
    LET choices == IF current_field(state).choices = NoneObj
                   THEN << >>
                   ELSE current_field(state).choices[1]
    IN  Edited([state.panel EXCEPT
                    !.choices_list = [k \in 1..Len(choices) |-> choices[k].text],
                    !.currentRow = -1],
               state.fields)

\* populate_field_data from the k-th control on: the controls take the
\* values of the field one after the other, then the choices are listed
RECURSIVE populate_from(_, _)
populate_from(state, k) ==
    IF k > Len(PopulateOrder)
    THEN populate_choices(state)
    ELSE CHOOSE out \in { populate_from(next, k + 1) :
                              next \in { populate_control(state,
                                                          PopulateOrder[k]) } } :
             TRUE

populate_field_data(state) == populate_from(state, 1)

\* set_field(field), with the field given as its row in the form, None for
\* no field
set_field(state, row) ==
    LET selected == Edited([state.panel EXCEPT !.current_field = row],
                           state.fields)
    IN  IF row = None THEN selected ELSE populate_field_data(selected)

\* the list is empty or None: "not self.current_field.choices"
no_choices(field) == field.choices = NoneObj \/ field.choices[1] = << >>

add_choice(state) ==
    IF state.panel.current_field = None \/ no_choices(current_field(state))
    THEN state
    ELSE LET choices    == current_field(state).choices[1]
             new_choice == Choice("Choice " \o ToString(Len(choices) + 1), "")
         IN  Edited([state.panel EXCEPT
                         !.choices_list = Append(@, new_choice.text)],
                    [state.fields EXCEPT
                         ![state.panel.current_field + 1].choices =
                             Some(Append(choices, new_choice))])

\* a sequence without its element at a Python index
without(items, index) ==
    [k \in 1..(Len(items) - 1) |->
        IF k <= index THEN items[k] ELSE items[k + 1]]

\* remove_choice: the choice of the current row goes, and the list widget
\* makes the next item, or else the one before, its current one
remove_choice(state) ==
    LET current_row == state.panel.currentRow
    IN  IF \/ current_row < 0
           \/ state.panel.current_field = None
           \/ no_choices(current_field(state))
        THEN state
        ELSE LET choices == current_field(state).choices[1]
                 listed  == without(state.panel.choices_list, current_row)
             IN  Edited([state.panel EXCEPT
                             !.choices_list = listed,
                             !.currentRow = IF current_row < Len(listed)
                                            THEN current_row
                                            ELSE Len(listed) - 1],
                        [state.fields EXCEPT
                             ![state.panel.current_field + 1].choices =
                                 Some(without(choices, current_row))])

----------------------------------------------------------------------------
(* form_service.py: field mutation operations *)

\* "field.id or 0"
id_or_0(field) == IF field.id = None \/ field.id = 0 THEN 0 ELSE field.id

\* a variant that numbers the new field by the field count
next_field_id_by_count(form_fields) == Len(form_fields) + 1

\* a variant that forgets the "+ 1"
next_field_id_no_increment(form_fields) ==
    IF form_fields = << >>
    THEN 0
    ELSE Max({ id_or_0(form_fields[k]) : k \in 1..Len(form_fields) })

\* the "next available field ID" computation of add and duplicate
next_field_id(form_fields) ==
    LET max_id == IF form_fields = << >>
                  THEN 0
                  ELSE Max({ id_or_0(form_fields[k]) :
                                 k \in 1..Len(form_fields) })
    IN  max_id + 1

\* a variant that assigns to form.fields[position] instead of inserting
add_field_overwriting(form_fields, field_type, position) ==
    LET new_field == create_field(field_type, next_field_id(form_fields))
    IN  IF position = None \/ position >= Len(form_fields)
        THEN Outcome(list_append(form_fields, new_field), OK)
        ELSE LET n  == Len(form_fields)
                 at == IF position < 0 THEN position + n ELSE position
             IN  IF at < 0
                 THEN Outcome(form_fields, "list assignment index out of range")
                 ELSE Outcome([form_fields EXCEPT ![at + 1] = new_field], OK)

add_field_to_form(form_fields, field_type, position) ==
    LET new_field == create_field(field_type, next_field_id(form_fields))
    IN  IF position = None \/ position >= Len(form_fields)
        THEN Outcome(list_append(form_fields, new_field), OK)
        ELSE Outcome(list_insert(form_fields, position, new_field), OK)

\* a variant whose not-found test is inverted
remove_field_raising_on_success(form_fields, field_id) ==
    LET keep(f)   == f.id # field_id
        remaining == SelectSeq(form_fields, keep)
    IN  IF Len(remaining) # Len(form_fields)
        THEN Outcome(remaining, NotFound)
        ELSE Outcome(remaining, OK)

\* a variant whose filter is inverted
remove_field_keeping_matches(form_fields, field_id) ==
    LET keep(f)   == f.id = field_id
        remaining == SelectSeq(form_fields, keep)
    IN  IF Len(remaining) = Len(form_fields)
        THEN Outcome(remaining, NotFound)
        ELSE Outcome(remaining, OK)

remove_field_from_form(form_fields, field_id) ==
    LET keep(f)   == f.id # field_id
        remaining == SelectSeq(form_fields, keep)
    IN  IF Len(remaining) = Len(form_fields)
        THEN Outcome(remaining, NotFound)
        ELSE Outcome(remaining, OK)

\* a variant that appends the clone instead of inserting it after the source
duplicate_field_appending(form_fields, field_id) ==
    LET field_position == index_of(form_fields, field_id)
    IN  IF field_position = -1
        THEN Outcome(form_fields, NotFound)
        ELSE LET dumped          == model_dump(form_fields[field_position + 1])
                 duplicate_data  ==
                     [dumped EXCEPT !.id = next_field_id(form_fields),
                                    !.label = dumped.label \o " (Copy)"]
             IN  Outcome(list_append(form_fields,
                                     model_validate(duplicate_data)), OK)

duplicate_field_in_form(form_fields, field_id) ==
    LET field_position == index_of(form_fields, field_id)
    IN  IF field_position = -1
        THEN Outcome(form_fields, NotFound)
        ELSE LET field_to_duplicate == form_fields[field_position + 1]
                 dumped          == model_dump(field_to_duplicate)
                 duplicate_data  ==
                     [dumped EXCEPT !.id = next_field_id(form_fields),
                                    !.label = dumped.label \o " (Copy)"]
                 duplicate_field == model_validate(duplicate_data)
             IN  Outcome(list_insert(form_fields, field_position + 1,
                                     duplicate_field), OK)

\* a variant whose boundary test is off by one ("if i > 1")
move_field_up_off_by_one(form_fields, field_id) ==
    LET i == index_of(form_fields, field_id)
    IN  IF i = -1
        THEN Outcome(form_fields, NotFound)
        ELSE IF i > 1
             THEN Outcome(list_swap(form_fields, i, i - 1), OK)
             ELSE Outcome(form_fields, AtTop)

move_field_up(form_fields, field_id) ==
    LET i == index_of(form_fields, field_id)
    IN  IF i = -1
        THEN Outcome(form_fields, NotFound)
        ELSE IF i > 0
             THEN Outcome(list_swap(form_fields, i, i - 1), OK)
             ELSE Outcome(form_fields, AtTop)

\* a variant whose boundary test is off by one ("len(form.fields) - 2")
move_field_down_off_by_one(form_fields, field_id) ==
    LET i == index_of(form_fields, field_id)
    IN  IF i = -1
        THEN Outcome(form_fields, NotFound)
        ELSE IF i < Len(form_fields) - 2
             THEN Outcome(list_swap(form_fields, i, i + 1), OK)
             ELSE Outcome(form_fields, AtBottom)

move_field_down(form_fields, field_id) ==
    LET i == index_of(form_fields, field_id)
    IN  IF i = -1
        THEN Outcome(form_fields, NotFound)
        ELSE IF i < Len(form_fields) - 1
             THEN Outcome(list_swap(form_fields, i, i + 1), OK)
             ELSE Outcome(form_fields, AtBottom)

----------------------------------------------------------------------------
(* Inputs of the calls *)

\* titles handed to create_new_form
TitleArgs == { "", "  ", " Survey " }

\* field types handed to add_field_to_form
AddTypes == { "text", "select" }

\* positions handed to add_field_to_form: omitted, negative, inside, beyond
Positions == { None } \cup (-2 .. MaxFields)

\* identifiers handed to remove, duplicate and move on a form: the ones its
\* fields carry and one that no field carries
AbsentId == 0
FieldIds(form_fields) ==
    ({ form_fields[k].id : k \in 1..Len(form_fields) } \ { None })
        \cup { AbsentId }

\* field sequences of a form document read by load_form / import_form, or
\* of a form constructed directly: nothing checks their identifiers, which
\* may repeat or be absent.  Field k is labelled "Field k".
DocTypes == { "text" }
DocIds == { None, 1, 2 }

FormsOf(n, ids, types) ==
    { [k \in 1..n |-> FieldModel(id[k], type[k], "Field " \o ToString(k))] :
          id \in [1..n -> ids], type \in [1..n -> types] }

DocFields ==
    { << >> } \cup UNION { FormsOf(n, DocIds, DocTypes) : n \in 1..MaxDocFields }

\* field sequences on which the caller runs "move_field_up until it fails"
LoopFields ==
    UNION { FormsOf(n, 1..n, {"text"}) : n \in 2..MaxFields }

\* field sequences on which the caller runs move_field_up and then
\* move_field_down: identifiers may repeat
UpDownFields ==
    UNION { FormsOf(n, 1..MaxId, {"text"}) : n \in 0..MaxFields }

\* s * n
RECURSIVE Repeated(_, _)
Repeated(s, n) ==
    IF n <= 0 THEN ""
    ELSE IF n = 1 THEN s
    ELSE LET half == Repeated(s, n \div 2)
         IN  half \o half \o Repeated(s, n % 2)

\* titles of the forms handed to validate_form: empty, blank, valid, of
\* exactly the limit, over the limit, and over the limit only through
\* trailing blanks
ValidatedTitles ==
    { "", "   ", "Survey",
      Repeated("x", TitleLimit),
      Repeated("x", TitleLimit + 1),
      Repeated("x", TitleLimit - 5) \o Repeated(" ", 6) }

\* fields of the forms handed to validate_form; identifiers repeat from one
\* case to the other, and some cases carry none
FieldCases ==
    { \* a text field that carries what would be wrong on another kind
      [FieldModel(1, "text", "Name") EXCEPT
           !.choices = Some(<< Choice("", NoneStr) >>),
           !.maxFileSize = 200,
           !.content = ""],
      \* labels: empty, blank and over-long at once
      FieldModel(2, "text", ""),
      FieldModel(None, "email", Repeated(" ", LabelLimit + 1)),
      \* choice kinds: absent list with an over-long label, empty list with
      \* an empty label, blank texts, valid
      FieldModel(1, "select", Repeated("x", LabelLimit + 1)),
      [FieldModel(1, "checkbox", "") EXCEPT !.choices = Some(<< >>)],
      [FieldModel(2, "radio", "Radio") EXCEPT
           !.choices = Some(<< Choice("Valid Choice", "valid"),
                               Choice("", "empty"),
                               Choice(" ", NoneStr) >>)],
      [FieldModel(None, "multiselect", "Multi Select") EXCEPT
           !.choices = Some(DefaultChoices)],
      \* file upload: over the limit, at the limit
      [FieldModel(2, "fileupload", "File") EXCEPT !.maxFileSize = 200],
      [FieldModel(1, "fileupload", "File") EXCEPT
           !.maxFileSize = FileSizeLimit],
      \* HTML: empty content, absent content, content
      FieldModel(None, "html", "HTML Block"),
      [FieldModel(2, "html", "HTML Block") EXCEPT !.content = NoneStr],
      [FieldModel(1, "html", "HTML Block") EXCEPT !.content = "<p>Hi</p>"] }

ValidatedFields ==
    UNION { [1..n -> FieldCases] : n \in 0..MaxValidatedFields }

\* the other attributes of a form whose optional attributes were set: an
\* absent description, a count of 0, a schedule start, and an identifier
EditedSettings ==
    [SettingsOf(FormModel("", << >>)) EXCEPT
        !.id = 7,
        !.description = NoneStr,
        !.limitEntriesCount = 0,
        !.scheduleStart = "2024-01-01"]

\* forms handed to save_form and export_form, as records of title, fields
\* and other attributes: valid and invalid ones, with optional attributes
\* absent, at an explicit default (0, "", an empty list) and set
PersistedForms ==
    { [title |-> "", fields |-> << >>,
       settings |-> SettingsOf(FormModel("", << >>))],
      [title |-> "My Form!", fields |-> << >>, settings |-> EditedSettings],
      [title |-> "Survey",
       fields |-> << create_field("text", 1), create_field("select", 2),
                     create_field("name", 3) >>,
       settings |-> SettingsOf(FormModel("", << >>))],
      [title |-> "Survey",
       fields |->
           << [FieldModel(2, "text", "Name") EXCEPT
                   !.maxLength = 0,
                   !.choices = Some(<< >>),
                   !.description = NoneStr,
                   !.maxFileSize = 0],
              FieldModel(1, "text", "Other"),
              [FieldModel(None, "text", "Logic") EXCEPT
                   !.inputs = Some(<< >>),
                   !.conditionalLogic =
                       Some([actionType |-> "show", logicType |-> "all",
                             rules |-> << >>])] >>,
       settings |-> EditedSettings],
      [title |-> "Draft",
       fields |->
           << [FieldModel(None, "checkbox", "") EXCEPT
                   !.choices = Some(<< >>),
                   !.maxLength = 0,
                   !.placeholder = NoneStr],
              FieldModel(None, "checkbox", "Boxes") >>,
       settings |-> EditedSettings] }

\* file names handed to save_form: omitted, without and with the extension
SaveNames == { NoneStr, "backup", "Survey.json" }

\* paths handed to export_form: outside and inside the forms directory
ExportPaths == { "Exports/form.json", in_forms_dir("Survey.json") }

\* file names handed to load_form: the ones of the forms directory and one
\* that no file has
LoadNames(fs) ==
    { SubSeq(path, Len(FormsDir) + 2, Len(path)) :
          path \in { q \in DOMAIN fs :
                        /\ Len(q) > Len(FormsDir) + 1
                        /\ SubSeq(q, 1, Len(FormsDir) + 1) = FormsDir \o "/" } }
        \cup { "missing.json" }

\* paths handed to import_form: the ones of the files and one of no file
ImportPaths(fs) == DOMAIN fs \cup { "Exports/missing.json" }

\* the field types in the order of the FieldType enumeration
KindOrder ==
    << "text", "textarea", "number", "email", "phone", "website", "select",
       "multiselect", "radio", "checkbox", "name", "address", "date", "time",
       "fileupload", "hidden", "html", "section", "page" >>

\* forms published through the dialog: an untitled one, a valid one, one
\* with a blank label and a repeated identifier, and one with a field of
\* every type
PublishedForms ==
    { [title |-> "", fields |-> << >>],
      [title |-> "Contact",
       fields |-> [i \in 1..Len(KindOrder) |->
                      create_field(KindOrder[i], i)]],
      [title |-> "Survey",
       fields |-> << create_field("text", 1), create_field("select", 2) >>],
      [title |-> "Survey",
       fields |-> << FieldModel(1, "text", ""),
                     create_field("fileupload", 1) >>] }

\* the forms of the site before the first publish
RemoteForms ==
    { << >>,
      << RemoteForm(1, "Survey") >>,
      << RemoteForm(1, "Contact"), RemoteForm(2, "Survey"),
         RemoteForm(3, "Survey") >> }

\* what the network and the site make of the requests of a publish_form
\* call
Outcomes(update_existing) ==
    { "ok", "write_failed" }
        \cup (IF update_existing THEN { "list_failed" } ELSE {})

\* titles handed to create_new_form by any caller: omitted, empty, blank,
\* padded and plain
NewTitles == { NoneStr, "", "  ", " Test " }

\* keyword arguments of a direct construction FormModel(...): the lists
\* omitted, empty, and given
ConstructedData ==
    { [title |-> "Test"],
      [title |-> "Test", notifications |-> << >>, confirmations |-> << >>],
      [title |-> "Test",
       notifications |->
           << [NotificationSettings EXCEPT !.name = "Sales"],
              NotificationSettings >>,
       confirmations |-> << [type |-> "redirect", url |-> "/thanks"] >>] }

\* form documents found on the file system that BFB did not write: one
\* that carries a title only, one with empty lists, and one that supplies
\* a notification
FoundFiles ==
    [path \in { "Exports/bare.json", in_forms_dir("empty.json"),
               in_forms_dir("sales.json") } |->
        CASE path = "Exports/bare.json" ->
               << "object", [title |-> << "string", "Test" >>] >>
          [] path = in_forms_dir("empty.json") ->
               << "object",
                  [title         |-> << "string", "Test" >>,
                   notifications |-> << "array", << >> >>,
                   confirmations |-> << "array", << >> >>] >>
          [] OTHER ->
               << "object",
                  [title         |-> << "string", "Test" >>,
                   notifications |->
                       << "array",
                          << << "object",
                                [name |-> << "string", "Sales" >>,
                                 bcc  |-> JsonNull] >>,
                             << "object",
                                [isActive |-> << "bool", TRUE >>] >> >> >>,
                   confirmations |->
                       << "array",
                          << << "object",
                                [type |-> << "string", "redirect" >>,
                                 url  |-> << "string", "/thanks" >>] >> >> >>]
               >>]

\* titles handed to create_new_form before the fields are added: none,
\* and one longer than the limit
FactoryTitles == { "", Repeated("x", TitleLimit + 1) }

\* positions handed to add_field_to_form: omitted, front, inside or end
FactoryPositions == { None, 0, 1 }

\* field types handed to add_field_to_form on a form: every type, and once
\* the form holds a field of a type outside AddTypes, those of AddTypes
FactoryTypes(form_fields) ==
    IF \A k \in 1..Len(form_fields) : form_fields[k].type \in AddTypes
    THEN FieldType
    ELSE AddTypes

\* the forms directory before the first save_form call: empty, holding a
\* file under the name a save will ask for, or that file and a later copy
StoredFiles ==
    LET found == FoundFiles[in_forms_dir("empty.json")]
        sales == FoundFiles[in_forms_dir("sales.json")]
    IN  { [path \in {} |-> found],
          [path \in { in_forms_dir("Survey.json") } |-> found],
          [path \in { in_forms_dir("Survey.json"),
                      in_forms_dir("Survey_2.json") } |->
              IF path = in_forms_dir("Survey.json") THEN found ELSE sales] }

\* the form whose fields the panel edits: a required text field, a select
\* field that is left with one choice, a file upload field
EditedFields ==
    << [create_field("text", 1) EXCEPT !.label = "Name", !.isRequired = TRUE,
                                       !.maxLength = 50, !.size = "large"],
       [create_field("select", 2) EXCEPT
            !.choices = Some(<< Choice("First Choice", "first") >>)],
       [create_field("fileupload", 3) EXCEPT !.maxFileSize = 5,
                                             !.allowedExtensions = "pdf"] >>

\* the controls update_field is connected to
Controls ==
    { "label_edit", "admin_label_edit", "description_edit", "required_check",
      "size_combo", "css_class_edit", "placeholder_edit",
      "default_value_edit", "max_length_spin", "max_file_size_spin",
      "allowed_extensions_edit", "multiple_files_check", "content_edit" }

\* the values the user gives a control
ControlValues(control) ==
    CASE control \in { "required_check", "multiple_files_check" } -> BOOLEAN
      [] control = "size_combo" -> SizeItems
      [] control = "max_length_spin" -> { 0, 10 }
      [] control = "max_file_size_spin" -> { 20, 50 }
      [] OTHER -> { "", "Edited" }

----------------------------------------------------------------------------
(* History bookkeeping *)

Call(op, field_id, field_type, position) ==
    [op |-> op, field_id |-> field_id, field_type |-> field_type,
     position |-> position]

\* no FormService call has been made since control returned to the caller
NoCall == Call("none", None, "", None)

NoAdd == [id |-> None, fields |-> << >>, removed |-> FALSE]

IdleLoop == [pc |-> "idle", field_id |-> None, moved |-> NoneObj, calls |-> 0]

\* the integer identifiers carried by a field sequence
IdsOf(form_fields) ==
    { form_fields[k].id : k \in 1..Len(form_fields) } \ { None }

IdleUpDown == [pc |-> "idle", field_id |-> None, start |-> << >>]

\* the other attributes of a form built by create_new_form
DefaultSettings == SettingsOf(FormModel("", << >>))

\* validate_form has not been called
NoValidation == [form |-> NoneObj, errors |-> << >>, previous |-> NoneObj]

\* an empty forms directory on an empty file system
NoFiles == [path \in {} |-> JsonNull]

\* no save, export, load or import call has been made since control
\* returned to the caller: validate and target are the arguments of such a
\* call, files and form what it found, filename and loaded what it returned
NoReturn ==
    [validate |-> FALSE, target |-> NoneStr, files |-> NoFiles,
     form |-> NoneObj, filename |-> NoneStr, loaded |-> NoneObj]

\* a site without forms that has received no write request
EmptySite == [forms |-> << >>, requests |-> << >>]

\* no WordPressDialog is open.  Of an open dialog: wp_client is "none"
\* before the first connection test, "untested" while the test of the
\* client runs, "passed" or "failed" after it; test_enabled and
\* publish_enabled are the states of the two buttons; update_existing is
\* the check box
NoDialog ==
    [open |-> FALSE, wp_client |-> "none", test_enabled |-> FALSE,
     publish_enabled |-> FALSE, update_existing |-> FALSE]

\* nothing but the field mutation operations is in use
OutsideEditorIdle ==
    /\ updown = IdleUpDown
    /\ settings = DefaultSettings
    /\ validation = NoValidation
    /\ files = NoFiles
    /\ returned = NoReturn
    /\ site = EmptySite
    /\ dialog = NoDialog
    /\ panel = NoPanel

----------------------------------------------------------------------------
(* The state machine *)

Init ==
    /\ title \in { create_new_form(t) : t \in TitleArgs }
    /\ fields = << >>
    /\ call = NoCall
    /\ result = OK
    /\ pre = << >>
    /\ assigned = {}
    /\ added = NoAdd
    /\ loop = IdleLoop
    /\ OutsideEditorIdle

AddField ==
    \E field_type \in AddTypes, position \in Positions :
        LET out == add_field_to_form(fields, field_type, position)
        IN  /\ call.op = "none"
            /\ Len(fields) < MaxFields
            /\ next_field_id(fields) <= MaxId
            /\ fields' = out.fields
            /\ result' = out.error
            /\ call' = Call("add_field_to_form", None, field_type, position)
            /\ pre' = fields
            /\ added' = [id |-> next_field_id(fields), fields |-> fields,
                         removed |-> FALSE]
            /\ UNCHANGED <<title, assigned, loop, outside_editor>>

RemoveField ==
    \E field_id \in FieldIds(fields) :
        LET out == remove_field_from_form(fields, field_id)
        IN  /\ call.op = "none"
            /\ fields' = out.fields
            /\ result' = out.error
            /\ call' = Call("remove_field_from_form", field_id, "", None)
            /\ pre' = fields
            /\ added' = IF added.id = field_id /\ ~added.removed
                        THEN [added EXCEPT !.removed = TRUE]
                        ELSE NoAdd
            /\ UNCHANGED <<title, assigned, loop, outside_editor>>

DuplicateField ==
    \E field_id \in FieldIds(fields) :
        LET out == duplicate_field_in_form(fields, field_id)
        IN  /\ call.op = "none"
            /\ Len(fields) < MaxFields
            /\ next_field_id(fields) <= MaxId
            /\ fields' = out.fields
            /\ result' = out.error
            /\ call' = Call("duplicate_field_in_form", field_id, "", None)
            /\ pre' = fields
            /\ added' = NoAdd
            /\ UNCHANGED <<title, assigned, loop, outside_editor>>

MoveFieldUp ==
    \E field_id \in FieldIds(fields) :
        LET out == move_field_up(fields, field_id)
        IN  /\ call.op = "none"
            /\ fields' = out.fields
            /\ result' = out.error
            /\ call' = Call("move_field_up", field_id, "", None)
            /\ pre' = fields
            /\ added' = NoAdd
            /\ UNCHANGED <<title, assigned, loop, outside_editor>>

MoveFieldDown ==
    \E field_id \in FieldIds(fields) :
        LET out == move_field_down(fields, field_id)
        IN  /\ call.op = "none"
            /\ fields' = out.fields
            /\ result' = out.error
            /\ call' = Call("move_field_down", field_id, "", None)
            /\ pre' = fields
            /\ added' = NoAdd
            /\ UNCHANGED <<title, assigned, loop, outside_editor>>

\* the call is over: the caller has the form (or the error) and is free to
\* make the next call
Return ==
    /\ call.op # "none"
    /\ call' = NoCall
    /\ result' = OK
    /\ pre' = fields
    /\ assigned' = assigned \cup IdsOf(fields)
    /\ added' = IF added.removed THEN NoAdd ELSE added
    /\ UNCHANGED <<title, fields, loop, outside_editor>>

Next ==
    \/ AddField
    \/ RemoveField
    \/ DuplicateField
    \/ MoveFieldUp
    \/ MoveFieldDown
    \/ Return

Spec == Init /\ [][Next]_vars

----------------------------------------------------------------------------
(* Forms that were not built by the engine: loaded, imported or constructed *)

InitLoaded ==
    /\ title = "Survey"
    /\ fields \in DocFields
    /\ call = NoCall
    /\ result = OK
    /\ pre = fields
    /\ assigned = IdsOf(fields)
    /\ added = NoAdd
    /\ loop = IdleLoop
    /\ OutsideEditorIdle

SpecLoaded == InitLoaded /\ [][Next]_vars

----------------------------------------------------------------------------
(* A caller that calls move_field_up(form, id) again and again until the   *)
(* call raises                                                              *)

InitMoveToTop ==
    /\ title = "Survey"
    /\ fields \in LoopFields
    /\ call = NoCall
    /\ result = OK
    /\ pre = fields
    /\ assigned = IdsOf(fields)
    /\ added = NoAdd
    /\ \E field_id \in IdsOf(fields) :
           loop = [pc |-> "moving", field_id |-> field_id,
                   moved |-> Some(fields[index_of(fields, field_id) + 1]),
                   calls |-> 0]
    /\ OutsideEditorIdle

MoveUpUntilFails ==
    LET out == move_field_up(fields, loop.field_id)
    IN  /\ loop.pc = "moving"
        /\ fields' = out.fields
        /\ result' = out.error
        /\ call' = Call("move_field_up", loop.field_id, "", None)
        /\ pre' = fields
        /\ loop' = [loop EXCEPT
                        !.pc = IF out.error = OK THEN "moving" ELSE "done",
                        !.calls = @ + 1]
        /\ assigned' = assigned \cup IdsOf(fields)
        /\ UNCHANGED <<title, added, outside_editor>>

SpecMoveToTop ==
    InitMoveToTop /\ [][MoveUpUntilFails]_vars /\ WF_vars(MoveUpUntilFails)

----------------------------------------------------------------------------
(* A caller that calls move_field_up(form, id) and, when that call         *)
(* succeeds, move_field_down(form, id)                                      *)

InitUpThenDown ==
    /\ title = "Survey"
    /\ fields \in UpDownFields
    /\ call = NoCall
    /\ result = OK
    /\ pre = fields
    /\ assigned = IdsOf(fields)
    /\ added = NoAdd
    /\ loop = IdleLoop
    /\ \E field_id \in FieldIds(fields) :
           updown = [pc |-> "up", field_id |-> field_id, start |-> fields]
    /\ settings = DefaultSettings
    /\ validation = NoValidation
    /\ files = NoFiles
    /\ returned = NoReturn
    /\ site = EmptySite
    /\ dialog = NoDialog
    /\ panel = NoPanel

UpOfUpThenDown ==
    LET out == move_field_up(fields, updown.field_id)
    IN  /\ updown.pc = "up"
        /\ fields' = out.fields
        /\ result' = out.error
        /\ call' = Call("move_field_up", updown.field_id, "", None)
        /\ pre' = fields
        /\ updown' = [updown EXCEPT
                          !.pc = IF out.error = OK THEN "down" ELSE "failed"]
        /\ UNCHANGED <<title, assigned, added, loop, settings, validation,
                       files, returned, site, dialog, panel>>

DownOfUpThenDown ==
    LET out == move_field_down(fields, updown.field_id)
    IN  /\ updown.pc = "down"
        /\ fields' = out.fields
        /\ result' = out.error
        /\ call' = Call("move_field_down", updown.field_id, "", None)
        /\ pre' = fields
        /\ updown' = [updown EXCEPT !.pc = "done"]
        /\ UNCHANGED <<title, assigned, added, loop, settings, validation,
                       files, returned, site, dialog, panel>>

NextUpThenDown == UpOfUpThenDown \/ DownOfUpThenDown

SpecUpThenDown == InitUpThenDown /\ [][NextUpThenDown]_vars

----------------------------------------------------------------------------
(* validate_form applied to forms of every shape                           *)

InitValidate ==
    /\ title \in ValidatedTitles
    /\ fields \in ValidatedFields
    /\ call = NoCall
    /\ result = OK
    /\ pre = fields
    /\ assigned = IdsOf(fields)
    /\ added = NoAdd
    /\ loop = IdleLoop
    /\ OutsideEditorIdle

ValidateForm ==
    LET form == FormOf(title, fields, settings)
        out  == validate_form(form)
    IN  /\ title' = out.form.title
        /\ fields' = out.form.fields
        /\ settings' = SettingsOf(out.form)
        /\ validation' =
               [form     |-> Some(form),
                errors   |-> out.errors,
                previous |-> IF validation.form = NoneObj
                             THEN NoneObj
                             ELSE Some(validation.errors)]
        /\ call' = Call("validate_form", None, "", None)
        /\ result' = OK
        /\ pre' = fields
        /\ UNCHANGED <<assigned, added, loop, updown, files, returned, site,
                       dialog, panel>>

SpecValidate == InitValidate /\ [][ValidateForm]_vars

----------------------------------------------------------------------------
(* save_form, export_form, load_form and import_form on one form and the   *)
(* files they leave behind                                                 *)

InitPersist ==
    /\ \E form \in PersistedForms :
           /\ title = form.title
           /\ fields = form.fields
           /\ settings = form.settings
    /\ call = NoCall
    /\ result = OK
    /\ pre = fields
    /\ assigned = IdsOf(fields)
    /\ added = NoAdd
    /\ loop = IdleLoop
    /\ updown = IdleUpDown
    /\ validation = NoValidation
    /\ files = NoFiles
    /\ returned = NoReturn
    /\ site = EmptySite
    /\ dialog = NoDialog
    /\ panel = NoPanel

\* what a save, export, load or import call does to the state
PersistCall(op, target, validate, out) ==
    /\ call.op = "none"
    /\ title' = out.form.title
    /\ fields' = out.form.fields
    /\ settings' = SettingsOf(out.form)
    /\ files' = out.files
    /\ returned' = [validate |-> validate, target |-> target,
                    files |-> files,
                    form |-> Some(FormOf(title, fields, settings)),
                    filename |-> out.filename, loaded |-> out.loaded]
    /\ call' = Call(op, None, "", None)
    /\ result' = out.error
    /\ pre' = fields
    /\ UNCHANGED <<assigned, added, loop, updown, validation, site, dialog,
                   panel>>

SaveForm ==
    \E filename \in SaveNames, validate \in BOOLEAN :
        /\ Cardinality(DOMAIN files) < MaxFiles
        /\ PersistCall("save_form", filename, validate,
                       save_form(files, FormOf(title, fields, settings),
                                 filename, validate))

ExportForm ==
    \E export_path \in ExportPaths, validate \in BOOLEAN :
        /\ export_path \in DOMAIN files \/ Cardinality(DOMAIN files) < MaxFiles
        /\ PersistCall("export_form", export_path, validate,
                       export_form(files, FormOf(title, fields, settings),
                                   export_path, validate))

LoadForm ==
    \E filename \in LoadNames(files) :
        PersistCall("load_form", filename, FALSE,
                    load_form(files, FormOf(title, fields, settings),
                              filename))

ImportForm ==
    \E import_path \in ImportPaths(files) :
        PersistCall("import_form", import_path, FALSE,
                    import_form(files, FormOf(title, fields, settings),
                                import_path))

\* the call is over: the caller has the file name, the form or the error
PersistReturn ==
    /\ call.op # "none"
    /\ call' = NoCall
    /\ result' = OK
    /\ returned' = NoReturn
    /\ pre' = fields
    /\ UNCHANGED <<title, fields, settings, files, assigned, added, loop,
                   updown, validation, site, dialog, panel>>

NextPersist ==
    \/ SaveForm
    \/ ExportForm
    \/ LoadForm
    \/ ImportForm
    \/ PersistReturn

SpecPersist == InitPersist /\ [][NextPersist]_vars

----------------------------------------------------------------------------
(* save_form into a forms directory that already holds files               *)

InitStored ==
    /\ \E form \in PersistedForms :
           /\ title = form.title
           /\ fields = form.fields
           /\ settings = form.settings
    /\ call = NoCall
    /\ result = OK
    /\ pre = fields
    /\ assigned = IdsOf(fields)
    /\ added = NoAdd
    /\ loop = IdleLoop
    /\ updown = IdleUpDown
    /\ validation = NoValidation
    /\ files \in StoredFiles
    /\ returned = NoReturn
    /\ site = EmptySite
    /\ dialog = NoDialog
    /\ panel = NoPanel

SaveStoredForm ==
    \E filename \in SaveNames, validate \in BOOLEAN :
        /\ Cardinality(DOMAIN files) < MaxFiles + 2
        /\ PersistCall("save_form", filename, validate,
                       save_form(files, FormOf(title, fields, settings),
                                 filename, validate))

NextStored ==
    \/ SaveStoredForm
    \/ PersistReturn

SpecStored == InitStored /\ [][NextStored]_vars

----------------------------------------------------------------------------
(* Publishing the current form through the WordPress dialog                *)

InitPublish ==
    /\ \E form \in PublishedForms :
           /\ title = form.title
           /\ fields = form.fields
    /\ settings = DefaultSettings
    /\ call = NoCall
    /\ result = OK
    /\ pre = fields
    /\ assigned = IdsOf(fields)
    /\ added = NoAdd
    /\ loop = IdleLoop
    /\ updown = IdleUpDown
    /\ validation = NoValidation
    /\ files = NoFiles
    /\ returned = NoReturn
    /\ site \in { [forms |-> remote_forms, requests |-> << >>] :
                      remote_forms \in RemoteForms }
    /\ dialog = NoDialog
    /\ panel = NoPanel

\* what the publish actions leave alone
outside_publish ==
    <<fields, pre, assigned, added, loop, updown, validation, files, returned,
      panel>>

\* MainWindow.publish_form: the dialog opens on the current form
OpenPublishDialog ==
    /\ ~dialog.open
    /\ dialog' = [open |-> TRUE, wp_client |-> "none", test_enabled |-> TRUE,
                  publish_enabled |-> FALSE, update_existing |-> FALSE]
    /\ call' = Call("open_dialog", None, "", None)
    /\ result' = OK
    /\ UNCHANGED <<title, settings, site, outside_publish>>

\* WordPressDialog.test_connection: with every connection field filled, a
\* new client is made and its test starts in the background
TestConnection ==
    \E filled \in BOOLEAN :
        /\ dialog.open
        /\ dialog.test_enabled
        /\ dialog' = IF filled
                     THEN [dialog EXCEPT !.wp_client = "untested",
                                         !.test_enabled = FALSE]
                     ELSE dialog
        /\ call' = Call("test_connection", None, "", None)
        /\ result' = OK
        /\ UNCHANGED <<title, settings, site, outside_publish>>

\* WordPressDialog.on_connection_tested: the background test reports
ConnectionTested ==
    \E success \in BOOLEAN :
        /\ dialog.open
        /\ dialog.wp_client = "untested"
        /\ dialog' = [dialog EXCEPT
                          !.wp_client = IF success THEN "passed" ELSE "failed",
                          !.test_enabled = TRUE,
                          !.publish_enabled = success]
        /\ call' = Call("on_connection_tested", None, "", None)
        /\ result' = OK
        /\ UNCHANGED <<title, settings, site, outside_publish>>

\* the user ticks or clears "Update existing form if found"
ToggleUpdateExisting ==
    /\ dialog.open
    /\ dialog' = [dialog EXCEPT !.update_existing = ~@]
    /\ call' = Call("toggle_update_existing", None, "", None)
    /\ result' = OK
    /\ UNCHANGED <<title, settings, site, outside_publish>>

\* WordPressDialog.publish_form, WPClient.publish_form and, when the form
\* is published, MainWindow.on_form_published: the form of the dialog goes
\* to the site as it is
PublishForm ==
    \E outcome \in Outcomes(dialog.update_existing) :
        LET out == wp_publish_form(site.forms,
                                   FormOf(title, fields, settings),
                                   dialog.update_existing, outcome)
        IN  /\ dialog.open
            /\ dialog.publish_enabled
            /\ Len(site.forms) < MaxRemoteForms
                   \/ (dialog.update_existing
                       /\ existing_form_id(site.forms, title) # None)
            /\ IF dialog.wp_client = "none"
               THEN UNCHANGED <<site, settings, dialog>>
               ELSE /\ site' = [forms |-> out.forms,
                                requests |-> out.requests]
                    /\ settings' = IF out.error = OK
                                   THEN [settings EXCEPT !.id = out.id]
                                   ELSE settings
                    /\ dialog' = IF out.error = OK
                                 THEN NoDialog
                                 ELSE [dialog EXCEPT !.publish_enabled = TRUE]
            /\ call' = Call("publish_form", None, "", None)
            /\ result' = IF dialog.wp_client = "none" THEN OK ELSE out.error
            /\ UNCHANGED <<title, outside_publish>>

\* the Close button: QDialog.reject
CloseDialog ==
    /\ dialog.open
    /\ dialog' = NoDialog
    /\ call' = Call("reject", None, "", None)
    /\ result' = OK
    /\ UNCHANGED <<title, settings, site, outside_publish>>

NextPublish ==
    \/ OpenPublishDialog
    \/ TestConnection
    \/ ConnectionTested
    \/ ToggleUpdateExisting
    \/ PublishForm
    \/ CloseDialog

SpecPublish == InitPublish /\ [][NextPublish]_vars

----------------------------------------------------------------------------
(* Forms that are constructed, created, loaded and imported, and then      *)
(* edited                                                                  *)

InitBuild ==
    /\ \E data \in ConstructedData :
           LET form == form_model_validate(data)
           IN  /\ title = form.title
               /\ fields = form.fields
               /\ settings = SettingsOf(form)
    /\ call = NoCall
    /\ result = OK
    /\ pre = fields
    /\ assigned = IdsOf(fields)
    /\ added = NoAdd
    /\ loop = IdleLoop
    /\ updown = IdleUpDown
    /\ validation = NoValidation
    /\ files = FoundFiles
    /\ returned = NoReturn
    /\ site = EmptySite
    /\ dialog = NoDialog
    /\ panel = NoPanel

\* the caller holds the form a call returned
Hold(form) ==
    /\ title' = form.title
    /\ fields' = form.fields
    /\ settings' = SettingsOf(form)
    /\ assigned' = IdsOf(form.fields)
    /\ added' = NoAdd
    /\ UNCHANGED <<loop, updown, validation, files, site, dialog, panel>>

\* create_new_form, as by MainWindow.new_form: the new form becomes the
\* current one
NewForm ==
    \E title_arg \in NewTitles :
        /\ call.op = "none"
        /\ Hold(new_form(title_arg))
        /\ call' = Call("create_new_form", None, "", None)
        /\ result' = OK
        /\ pre' = fields
        /\ returned' = [NoReturn EXCEPT !.target = title_arg]

\* load_form or import_form, as by MainWindow.open_form: the form read
\* becomes the current one, and a failure leaves the current one
OpenForm ==
    \E op \in { "load_form", "import_form" } :
        \E target \in IF op = "load_form"
                      THEN LoadNames(files)
                      ELSE ImportPaths(files) :
            LET form == FormOf(title, fields, settings)
                out  == IF op = "load_form"
                        THEN load_form(files, form, target)
                        ELSE import_form(files, form, target)
            IN  /\ call.op = "none"
                /\ Hold(IF out.error = OK THEN out.loaded[1] ELSE form)
                /\ call' = Call(op, None, "", None)
                /\ result' = out.error
                /\ pre' = fields
                /\ returned' = [NoReturn EXCEPT !.target = target,
                                                !.files = files,
                                                !.loaded = out.loaded]

\* the call is over: the caller has the form (or the error) and is free to
\* make the next call
BuildReturn ==
    /\ call.op # "none"
    /\ call' = NoCall
    /\ result' = OK
    /\ pre' = fields
    /\ assigned' = assigned \cup IdsOf(fields)
    /\ added' = IF added.removed THEN NoAdd ELSE added
    /\ returned' = NoReturn
    /\ UNCHANGED <<title, fields, settings, loop, updown, validation, files,
                   site, dialog, panel>>

NextBuild ==
    \/ NewForm
    \/ OpenForm
    \/ AddField
    \/ RemoveField
    \/ DuplicateField
    \/ MoveFieldUp
    \/ MoveFieldDown
    \/ BuildReturn

SpecBuild == InitBuild /\ [][NextBuild]_vars

----------------------------------------------------------------------------
(* Forms built from create_new_form by adding factory fields of every      *)
(* type, removing and moving them                                          *)

InitFactory ==
    /\ title \in { create_new_form(t) : t \in FactoryTitles }
    /\ fields = << >>
    /\ call = NoCall
    /\ result = OK
    /\ pre = << >>
    /\ assigned = {}
    /\ added = NoAdd
    /\ loop = IdleLoop
    /\ OutsideEditorIdle

AddFactoryField ==
    \E field_type \in FactoryTypes(fields), position \in FactoryPositions :
        LET out == add_field_to_form(fields, field_type, position)
        IN  /\ call.op = "none"
            /\ Len(fields) < MaxFactoryFields
            /\ next_field_id(fields) <= MaxFactoryFields + 1
            /\ fields' = out.fields
            /\ result' = out.error
            /\ call' = Call("add_field_to_form", None, field_type, position)
            /\ pre' = fields
            /\ added' = [id |-> next_field_id(fields), fields |-> fields,
                         removed |-> FALSE]
            /\ UNCHANGED <<title, assigned, loop, outside_editor>>

NextFactory ==
    \/ AddFactoryField
    \/ RemoveField
    \/ MoveFieldUp
    \/ MoveFieldDown
    \/ Return

SpecFactory == InitFactory /\ [][NextFactory]_vars

----------------------------------------------------------------------------
(* The field editor panel on the fields of the current form                *)

InitPanel ==
    /\ title = "Survey"
    /\ fields = EditedFields
    /\ call = NoCall
    /\ result = OK
    /\ pre = fields
    /\ assigned = IdsOf(fields)
    /\ added = NoAdd
    /\ loop = IdleLoop
    /\ OutsideEditorIdle

\* what the handlers of the panel leave alone
outside_panel ==
    <<title, result, assigned, added, loop, updown, settings, validation,
      files, returned, site, dialog>>

\* what a handler of the panel does to the state
PanelCall(op, control, out) ==
    /\ fields' = out.fields
    /\ panel' = [out.panel EXCEPT !.edited = control]
    /\ call' = Call(op, None, "", None)
    /\ pre' = fields
    /\ UNCHANGED outside_panel

\* MainWindow.on_field_selected: another row of the field list, or none,
\* becomes the current one
OnFieldSelected ==
    \E row \in (0..(Len(fields) - 1)) \cup { None } :
        /\ row # panel.current_field
        /\ PanelCall("set_field", "", set_field(Edited(panel, fields), row))

\* the group of a control is shown
shown(control) ==
    /\ panel.current_field # None
    /\ control \in { "max_file_size_spin", "allowed_extensions_edit",
                     "multiple_files_check" } =>
           fields[panel.current_field + 1].type = "fileupload"
    /\ control = "content_edit" =>
           fields[panel.current_field + 1].type = "html"

\* the user gives a control a new value, and its signal runs update_field
EditControl ==
    \E control \in Controls :
        \E value \in ControlValues(control) :
            /\ shown(control)
            /\ value # panel[control]
            /\ panel.edits < MaxEdits
            /\ PanelCall("update_field", control,
                         update_field(
                             Edited([panel EXCEPT ![control] = value,
                                                  !.edits = @ + 1],
                                    fields)))

\* the choices group is shown
choices_shown ==
    /\ panel.current_field # None
    /\ fields[panel.current_field + 1].type \in ChoiceKinds

\* the user clicks a row of the choices list
SelectChoice ==
    \E row \in 0..(Len(panel.choices_list) - 1) :
        /\ choices_shown
        /\ row # panel.currentRow
        /\ PanelCall("select_choice", "",
                     Edited([panel EXCEPT !.currentRow = row], fields))

AddChoice ==
    /\ choices_shown
    /\ Len(panel.choices_list) < MaxChoices
    /\ PanelCall("add_choice", "", add_choice(Edited(panel, fields)))

RemoveChoice ==
    /\ choices_shown
    /\ PanelCall("remove_choice", "", remove_choice(Edited(panel, fields)))

NextPanel ==
    \/ OnFieldSelected
    \/ EditControl
    \/ SelectChoice
    \/ AddChoice
    \/ RemoveChoice

SpecPanel == InitPanel /\ [][NextPanel]_vars

----------------------------------------------------------------------------
(* Vocabulary of the properties *)

MutationOps ==
    { "remove_field_from_form", "duplicate_field_in_form",
      "move_field_up", "move_field_down" }

\* the sequence s without its k-th element
Without(s, k) == SubSeq(s, 1, k - 1) \o SubSeq(s, k + 1, Len(s))

\* no two positions of a field sequence carry the same identifier
UniqueIds(form_fields) ==
    \A i, j \in 1..Len(form_fields) :
        i # j => form_fields[i].id # form_fields[j].id

\* the identifiers the last call brought into the form
NewIds == IdsOf(fields) \ IdsOf(pre)

----------------------------------------------------------------------------
(* C1: in every state reachable from create_new_form through add, remove,  *)
(* duplicate, move up and move down calls, successful or failing, no two   *)
(* fields of the form carry the same identifier.                           *)
C1_UniqueIdentifiers == UniqueIds(fields)

\* a duplicate was made in a form from which a field had been removed
C1_Witness ==
    /\ call.op = "duplicate_field_in_form"
    /\ result = OK
    /\ Len(fields) >= 2
    /\ assigned \ IdsOf(fields) # {}

(* C2: the identifier given to a newly added or duplicated field differs   *)
(* from every identifier ever assigned to a field of the form before,      *)
(* including the identifiers of fields that have since been removed.       *)
C2_NeverReusesFreedId ==
    (call.op \in {"add_field_to_form", "duplicate_field_in_form"}
        /\ result = OK)
    => NewIds \cap assigned = {}

(* C3: when remove, duplicate, move up or move down signals a failure, the *)
(* field sequence after the call equals the one before it: same fields,    *)
(* same content, same order.                                                *)
C3_FailureLeavesFormUnchanged ==
    (call.op \in MutationOps /\ result # OK) => fields = pre

\* a removal failed on a form that has fields to lose
C3_Witness ==
    /\ call.op = "remove_field_from_form"
    /\ result = NotFound
    /\ Len(pre) >= 2

(* C4: add_field_to_form gives the new field the identifier 1 + the        *)
(* largest identifier of the form (1 in a form without fields), exactly    *)
(* the attributes create_field produces for the type, makes the form one   *)
(* field longer and keeps the other fields and their order.  On an empty   *)
(* form a text field gets id 1, label "Untitled" and placeholder           *)
(* "Enter text here".                                                      *)
C4_AddField ==
    call.op = "add_field_to_form" =>
        LET expected_id == IF pre = << >>
                           THEN 1
                           ELSE 1 + Max(IdsOf(pre))
        IN  /\ result = OK
            /\ Len(fields) = Len(pre) + 1
            /\ \E k \in 1..Len(fields) :
                   /\ fields[k] = create_field(call.field_type, expected_id)
                   /\ Without(fields, k) = pre
            /\ (pre = << >> /\ call.field_type = "text") =>
                   /\ fields[1].id = 1
                   /\ fields[1].label = "Untitled"
                   /\ fields[1].placeholder = "Enter text here"

\* a field was inserted between two others whose largest id is not the last
C4_Witness ==
    /\ call.op = "add_field_to_form"
    /\ call.position = 1
    /\ Len(pre) = 2
    /\ pre[1].id > pre[2].id

(* C5: add_field_to_form places the new field at index position when      *)
(* 0 <= position < number of fields, and at the end of the sequence in     *)
(* every other case: position omitted, position >= number of fields, and   *)
(* any other out-of-range position such as a negative one.                 *)
C5_PositionOrEnd ==
    call.op = "add_field_to_form" =>
        LET n  == Len(pre)
            p  == call.position
            at == IF p # None /\ 0 <= p /\ p < n THEN p + 1 ELSE n + 1
        IN  /\ Len(fields) = n + 1
            /\ fields[at].id \in NewIds
            /\ Without(fields, at) = pre

\* the positions of a field sequence that carry the identifier
Matches(form_fields, field_id) ==
    { k \in 1..Len(form_fields) : form_fields[k].id = field_id }

\* the first of them
FirstMatch(form_fields, field_id) ==
    CHOOSE k \in Matches(form_fields, field_id) :
        \A j \in Matches(form_fields, field_id) : k <= j

(* C6 as stated: for every form in which some field has the given id,      *)
(* remove_field_from_form removes exactly one field, the one with that id, *)
(* and the remaining fields keep content and order; when no field has the  *)
(* id the call fails with not-found.                                       *)
C6_RemovesExactlyOne ==
    call.op = "remove_field_from_form" =>
        IF Matches(pre, call.field_id) # {}
        THEN /\ result = OK
             /\ Len(fields) = Len(pre) - 1
             /\ \E k \in Matches(pre, call.field_id) :
                    fields = Without(pre, k)
        ELSE result = NotFound

(* C6 amended: for every form in which exactly one field has the given id, *)
(* remove_field_from_form removes exactly that field (the field count      *)
(* decreases by 1) and the remaining fields keep content and order; when   *)
(* no field has the id the call fails with not-found.                      *)
C6_RemovesTheOnlyMatch ==
    call.op = "remove_field_from_form" =>
        LET matches == Matches(pre, call.field_id)
        IN  /\ Cardinality(matches) = 1 =>
                   /\ result = OK
                   /\ Len(fields) = Len(pre) - 1
                   /\ \A k \in matches : fields = Without(pre, k)
            /\ matches = {} => result = NotFound

\* the middle field of three was removed
C6_Witness ==
    /\ call.op = "remove_field_from_form"
    /\ result = OK
    /\ Len(pre) = 3
    /\ Matches(pre, call.field_id) = {2}

(* C7: add_field_to_form followed by remove_field_from_form with the id    *)
(* the add assigned yields the original field sequence, in order and       *)
(* content, for every form, type and position.                             *)
C7_AddThenRemoveRestores ==
    added.removed => (result = OK /\ fields = added.fields)

\* a field added to a form of two fields was removed again
C7_Witness ==
    /\ added.removed
    /\ call.op = "remove_field_from_form"
    /\ call.field_id = added.id
    /\ Len(added.fields) = 2

C9_MoveSwapsWithNeighbour ==
    LET n == Len(pre)
        Swapped(k, m) ==
            /\ result = OK
            /\ Len(fields) = n
            /\ fields[m] = pre[k]
            /\ fields[k] = pre[m]
            /\ \A j \in 1..n : j \notin {k, m} => fields[j] = pre[j]
    IN  /\ call.op = "move_field_up" =>
               IF Matches(pre, call.field_id) = {}
               THEN result = NotFound
               ELSE LET k == FirstMatch(pre, call.field_id)
                    IN  IF k = 1 THEN result = AtTop ELSE Swapped(k, k - 1)
        /\ call.op = "move_field_down" =>
               IF Matches(pre, call.field_id) = {}
               THEN result = NotFound
               ELSE LET k == FirstMatch(pre, call.field_id)
                    IN  IF k = n THEN result = AtBottom ELSE Swapped(k, k + 1)

\* the last of three fields moved up
C9_Witness ==
    /\ call.op = "move_field_up"
    /\ result = OK
    /\ Len(pre) = 3
    /\ pre[3].id = call.field_id
    /\ fields[2].id = call.field_id

(* C10: for every field sequence of length >= 2 and every id present in    *)
(* it, calling move_field_up(form, id) until it fails terminates after     *)
(* finitely many calls, and then the field that was moved is at index 0.   *)
C10_MoveToTopTerminates ==
    <>(/\ loop.pc = "done"
       /\ loop.calls <= Len(fields)
       /\ Some(fields[1]) = loop.moved)

\* the loop ended after moving the last of three fields to the top
C10_Witness ==
    /\ loop.pc = "done"
    /\ Len(fields) = 3
    /\ loop.calls = 3
    /\ result = AtTop
    /\ Some(fields[1]) = loop.moved

(* C11: for every form and identifier whose first matching field is not at *)
(* index 0, a successful move_field_up(form, id) followed by               *)
(* move_field_down(form, id) succeeds and leaves the fields in their       *)
(* original order.                                                         *)
C11_UpThenDownRestores ==
    updown.pc = "done" => (result = OK /\ fields = updown.start)

\* the middle field of three went up and came down again
C11_Witness ==
    /\ updown.pc = "done"
    /\ Len(updown.start) = 3
    /\ updown.start[2].id = updown.field_id
    /\ updown.start[1].id # updown.field_id
    /\ updown.start[3].id # updown.field_id

----------------------------------------------------------------------------
(* Vocabulary of the validation properties: the rules as the specification *)
(* words them, stated on the form itself                                   *)

\* validate_form has just returned
ValidatedNow == call.op = "validate_form"

\* the list validate_form returned
Errors == validation.errors

Has(e) == \E i \in 1..Len(Errors) : Errors[i] = e

Count(e) == Cardinality({ i \in 1..Len(Errors) : Errors[i] = e })

StartsWith(s, p) == Len(s) >= Len(p) /\ SubSeq(s, 1, Len(p)) = p

\* an absent string, or a string of blanks only
BlankText(s) == s = NoneStr \/ \A i \in 1..Len(s) : SubSeq(s, i, i) = " "

\* the length of a string without its leading and trailing blanks
TrimmedLen(s) ==
    IF BlankText(s)
    THEN 0
    ELSE LET first == CHOOSE i \in 1..Len(s) :
                          /\ SubSeq(s, i, i) # " "
                          /\ \A j \in 1..(i - 1) : SubSeq(s, j, j) = " "
             tail  == CHOOSE k \in 0..(Len(s) - 1) :
                          /\ SubSeq(s, Len(s) - k, Len(s) - k) # " "
                          /\ \A j \in 0..(k - 1) :
                                 SubSeq(s, Len(s) - j, Len(s) - j) = " "
             last  == Len(s) - tail
         IN  last - first + 1

\* "Field N" for the 1-based position N
Position(k) == "Field " \o ToString(k)

NumChoices(k) ==
    IF fields[k].choices = NoneObj THEN 0 ELSE Len(fields[k].choices[1])

BlankLabel(k) == BlankText(fields[k].label)
OverLongLabel(k) == Len(fields[k].label) > 255
RepeatedId(k) ==
    /\ fields[k].id # None
    /\ \E j \in 1..(k - 1) : fields[j].id = fields[k].id
MissingChoices(k) == fields[k].type \in ChoiceTypes /\ NumChoices(k) = 0
BlankChoice(k, m) ==
    /\ fields[k].type \in ChoiceTypes
    /\ m \in 1..NumChoices(k)
    /\ BlankText(fields[k].choices[1][m].text)
OverLimitFile(k) ==
    /\ fields[k].type = "fileupload"
    /\ fields[k].maxFileSize # None
    /\ fields[k].maxFileSize > 100
BlankContent(k) == fields[k].type = "html" /\ BlankText(fields[k].content)

LabelRequiredAt(k) == Position(k) \o LabelRequired
LabelTooLongAt(k) == Position(k) \o LabelTooLong
DuplicateIdAt(k) == Position(k) \o DuplicateId
ChoicesRequiredAt(k) == Position(k) \o ChoicesRequired
ChoiceTextRequiredAt(k, m) ==
    Position(k) \o ", Choice " \o ToString(m) \o ChoiceTextRequired
FileSizeTooLargeAt(k) == Position(k) \o FileSizeTooLarge
ContentRequiredAt(k) == Position(k) \o ContentRequired

\* the positions of the list that hold a duplicate-identifier error
DuplicateErrors ==
    { i \in 1..Len(Errors) :
        \E k \in 1..Len(fields) : StartsWith(Errors[i], DuplicateIdAt(k)) }

\* the positions of the list that hold a title error
TitleErrors == { i \in 1..Len(Errors) : Errors[i] \in { TitleRequired, TitleTooLong } }

\* the errors field k can yield in one category
ErrorsIn(k, category) ==
    CASE category = "label" -> { LabelRequiredAt(k), LabelTooLongAt(k) }
      [] category = "duplicate" ->
           IF fields[k].id = None
           THEN {}
           ELSE { DuplicateIdAt(k) \o ToString(fields[k].id) }
      [] category = "choice" ->
           { ChoicesRequiredAt(k) }
               \cup { ChoiceTextRequiredAt(k, m) : m \in 1..NumChoices(k) }
      [] category = "file" -> { FileSizeTooLargeAt(k) }
      [] category = "html" -> { ContentRequiredAt(k) }

\* where an error stands when the categories of a field come in the given
\* order: title errors first, then field by field
Place(e, order) ==
    IF e \in { TitleRequired, TitleTooLong }
    THEN 0
    ELSE LET at == CHOOSE p \in (1..Len(fields)) \X (1..Len(order)) :
                       e \in ErrorsIn(p[1], order[p[2]])
         IN  10 * at[1] + at[2]

\* no error of the list stands before an error it should follow
InOrder(order) ==
    \A i \in 1..(Len(Errors) - 1) :
        Place(Errors[i], order) <= Place(Errors[i + 1], order)

(* C12: validate_form collects every error: each violated rule of the      *)
(* title and of every field (blank label, over-long label, repeated id,    *)
(* missing choices, blank choice text, over-limit file size, blank HTML    *)
(* content) has its error in the returned list, whatever precedes it.      *)
C12_CollectsAllErrors ==
    ValidatedNow =>
        /\ BlankText(title) => Has(TitleRequired)
        /\ TrimmedLen(title) > 255 => Has(TitleTooLong)
        /\ \A k \in 1..Len(fields) :
               /\ BlankLabel(k) => Has(LabelRequiredAt(k))
               /\ OverLongLabel(k) => Has(LabelTooLongAt(k))
               /\ RepeatedId(k) =>
                      Has(DuplicateIdAt(k) \o ToString(fields[k].id))
               /\ MissingChoices(k) => Has(ChoicesRequiredAt(k))
               /\ \A m \in 1..NumChoices(k) :
                      BlankChoice(k, m) => Has(ChoiceTextRequiredAt(k, m))
               /\ OverLimitFile(k) => Has(FileSizeTooLargeAt(k))
               /\ BlankContent(k) => Has(ContentRequiredAt(k))

\* a blank title, a blank label on field 1, and on field 2 a repeated id
\* together with a missing choice list
C12_Witness ==
    /\ ValidatedNow
    /\ BlankText(title)
    /\ Len(fields) = 2
    /\ BlankLabel(1)
    /\ RepeatedId(2)
    /\ MissingChoices(2)
    /\ Len(Errors) >= 4

(* C13 as stated: title errors come first, then the errors of each field   *)
(* in sequence order, and within one field the label errors come before    *)
(* the duplicate-identifier error, then the choice errors, then the file   *)
(* size error, then the HTML content error.                                *)
C13_LabelBeforeDuplicate ==
    ValidatedNow => InOrder(<< "label", "duplicate", "choice", "file", "html" >>)

(* C13 amended: title errors come first, then the errors of each field in  *)
(* sequence order, and within one field the duplicate-identifier error     *)
(* comes before the label errors, then the choice errors, then the file    *)
(* size error, then the HTML content error.                                *)
C13_DuplicateBeforeLabel ==
    ValidatedNow => InOrder(<< "duplicate", "label", "choice", "file", "html" >>)

\* a title error, then on field 2 a duplicate-identifier error, a label
\* error and a choice error
C13_Witness ==
    /\ ValidatedNow
    /\ TitleErrors # {}
    /\ Len(fields) = 2
    /\ RepeatedId(2)
    /\ BlankLabel(2)
    /\ MissingChoices(2)
    /\ Len(Errors) >= 4

(* C14 as stated: the first field with an identifier yields no duplicate   *)
(* error, every later field with the same identifier yields exactly one,   *)
(* prefixed with its own 1-based position, and the number of duplicate     *)
(* errors is the number of fields minus the number of distinct identifiers *)
(* (an absent identifier counted as one more identifier).                  *)
C14_DuplicatesAreFieldsMinusIds ==
    ValidatedNow =>
        /\ \A k \in 1..Len(fields) :
               Cardinality({ i \in 1..Len(Errors) :
                                 StartsWith(Errors[i], DuplicateIdAt(k)) })
                   = IF RepeatedId(k) THEN 1 ELSE 0
        /\ Cardinality(DuplicateErrors)
               = Len(fields)
                     - Cardinality({ fields[k].id : k \in 1..Len(fields) })

(* C14 amended: the first field with an identifier yields no duplicate     *)
(* error, every later field with the same identifier yields exactly one,   *)
(* prefixed with its own 1-based position and naming the identifier, a     *)
(* field without an identifier yields none, and the number of duplicate    *)
(* errors is the number of fields that carry an identifier minus the       *)
(* number of distinct identifiers.                                         *)
C14_DuplicatesAmongIdentified ==
    ValidatedNow =>
        /\ \A k \in 1..Len(fields) :
               /\ Cardinality({ i \in 1..Len(Errors) :
                                    StartsWith(Errors[i], DuplicateIdAt(k)) })
                      = IF RepeatedId(k) THEN 1 ELSE 0
               /\ RepeatedId(k) =>
                      Has(DuplicateIdAt(k) \o ToString(fields[k].id))
        /\ Cardinality(DuplicateErrors)
               = Cardinality({ k \in 1..Len(fields) : fields[k].id # None })
                     - Cardinality(IdsOf(fields))

\* two fields with identifier 1: one duplicate error, on field 2
C14_Witness ==
    /\ ValidatedNow
    /\ Len(fields) = 2
    /\ fields[1].id = 1
    /\ fields[2].id = 1
    /\ Cardinality(DuplicateErrors) = 1
    /\ Has(DuplicateIdAt(2) \o "1")

(* C15: validate_form leaves the form it is given unchanged, and a second  *)
(* call on the same form returns the same list as the first.               *)
C15_ValidatePureAndIdempotent ==
    ValidatedNow =>
        /\ validation.form = Some(FormOf(title, fields, settings))
        /\ validation.previous # NoneObj =>
               validation.previous = Some(Errors)

\* a second call on a form with several errors
C15_Witness ==
    /\ ValidatedNow
    /\ validation.previous # NoneObj
    /\ Len(Errors) >= 3
    /\ Len(fields) >= 1

(* C16 as stated: a title that is blank after trimming, or longer than 255 *)
(* characters, yields exactly one title error, any other title yields      *)
(* none, and the form with title "" and no fields yields a list of exactly *)
(* one element.                                                            *)
C16_OneErrorForBlankOrLongTitle ==
    ValidatedNow =>
        /\ Cardinality(TitleErrors)
               = IF BlankText(title) \/ Len(title) > 255 THEN 1 ELSE 0
        /\ (title = "" /\ fields = << >>) => Len(Errors) = 1

(* C16 amended: a title that is blank after trimming, or whose trimmed     *)
(* text is longer than 255 characters, yields exactly one title error, any *)
(* other title yields none, and the form with title "" and no fields       *)
(* yields a list of exactly one element.                                   *)
C16_OneErrorForBlankOrLongTrimmedTitle ==
    ValidatedNow =>
        /\ Cardinality(TitleErrors)
               = IF BlankText(title) \/ TrimmedLen(title) > 255 THEN 1 ELSE 0
        /\ (title = "" /\ fields = << >>) => Len(Errors) = 1

\* the form with title "" and no fields
C16_Witness ==
    /\ ValidatedNow
    /\ title = ""
    /\ fields = << >>
    /\ Errors = << TitleRequired >>

(* C17: a choice-kind field at position N yields exactly one "must have at *)
(* least one choice" error prefixed "Field N" when its choice list is      *)
(* empty or absent, and otherwise one "Field N, Choice M" error for each   *)
(* blank choice M; a file upload field yields the size error exactly when  *)
(* its maximum size exceeds 100; an HTML field yields the content error    *)
(* exactly when its content is blank; no other kind yields these errors.   *)
C17_KindSpecificRules ==
    ValidatedNow =>
        \A k \in 1..Len(fields) :
            /\ Count(ChoicesRequiredAt(k)) = IF MissingChoices(k) THEN 1 ELSE 0
            /\ \A m \in 1..NumChoices(k) :
                   Count(ChoiceTextRequiredAt(k, m))
                       = IF BlankChoice(k, m) THEN 1 ELSE 0
            /\ Cardinality({ i \in 1..Len(Errors) :
                                 StartsWith(Errors[i],
                                            Position(k) \o ", Choice ") })
                   = Cardinality({ m \in 1..NumChoices(k) : BlankChoice(k, m) })
            /\ Count(FileSizeTooLargeAt(k)) = IF OverLimitFile(k) THEN 1 ELSE 0
            /\ Count(ContentRequiredAt(k)) = IF BlankContent(k) THEN 1 ELSE 0

\* a radio field with two blank choices followed by a file upload field
\* over the limit
C17_Witness ==
    /\ ValidatedNow
    /\ Len(fields) = 2
    /\ fields[1].type = "radio"
    /\ BlankChoice(1, 2)
    /\ BlankChoice(1, 3)
    /\ OverLimitFile(2)
    /\ Has(ChoiceTextRequiredAt(1, 2))
    /\ Has(ChoiceTextRequiredAt(1, 3))
    /\ Has(FileSizeTooLargeAt(2))

----------------------------------------------------------------------------
(* Persistence and publish *)

\* the form the caller holds
CurrentForm == FormOf(title, fields, settings)

\* validate_form finds an error in the form the caller holds
Invalid == validate_form(CurrentForm).errors # << >>

Writes == { "save_form", "export_form" }

\* the path at which the last save or export call wrote
WrittenPath ==
    IF call.op = "save_form"
    THEN in_forms_dir(returned.filename)
    ELSE returned.target

\* the last call wrote the document of the form at one path and changed no
\* other file
WroteTheForm ==
    /\ WrittenPath \in DOMAIN files
    /\ files[WrittenPath] = document_of(CurrentForm)
    /\ \A path \in DOMAIN returned.files :
           path # WrittenPath => /\ path \in DOMAIN files
                                 /\ files[path] = returned.files[path]
    /\ DOMAIN files \subseteq DOMAIN returned.files \cup { WrittenPath }

\* C18: a form is handed to the file writer (save_form, export_form wrote a
\* file) or to the remote publisher (publish_form sent a write request)
\* only if validate_form returns an empty list for the form as it is at
\* that moment.
C18_ValidatedBeforeBoundary ==
    /\ (call.op \in Writes /\ result = OK) => ~Invalid
    /\ (call.op = "publish_form" /\ site.requests # << >>) =>
           ~Invalid

\* C19 as stated: with validation enabled, save_form and export_form of a
\* form with a validation error raise, leave every file and the form as
\* they were; with validate=False both write the form and return a file
\* name.
C19_InvalidFormWrittenOnlyUnvalidated ==
    (call.op \in Writes /\ Invalid) =>
        IF returned.validate
        THEN /\ result \in { SaveFailed, ExportFailed }
             /\ files = returned.files
             /\ Some(CurrentForm) = returned.form
        ELSE /\ result = OK
             /\ returned.filename # NoneStr
             /\ WroteTheForm

\* C19 amended: with validation enabled, save_form and export_form of a
\* form with a validation error raise, leave every file and the form as
\* they were; with validate=False both write the form, save_form returns
\* the name of the file it wrote in the forms directory and export_form
\* returns nothing: its file is at the path it was given.
C19_InvalidFormWrittenSaveReturnsName ==
    (call.op \in Writes /\ Invalid) =>
        IF returned.validate
        THEN /\ result \in { SaveFailed, ExportFailed }
             /\ files = returned.files
             /\ Some(CurrentForm) = returned.form
        ELSE /\ result = OK
             /\ Some(CurrentForm) = returned.form
             /\ WroteTheForm
             /\ (call.op = "save_form") =>
                    /\ returned.filename # NoneStr
                    /\ endswith(returned.filename, ".json")
             /\ (call.op = "export_form") =>
                    /\ returned.filename = NoneStr
                    /\ WrittenPath = returned.target

\* both cases of C19 happened: a refused export left the file of a forced
\* save alone, and a forced save wrote an invalid form
C19_Witness ==
    /\ Invalid
    /\ \/ /\ call.op = "export_form"
          /\ returned.validate
          /\ result = ExportFailed
          /\ DOMAIN files # {}
       \/ /\ call.op = "save_form"
          /\ ~returned.validate
          /\ result = OK
          /\ returned.filename = "untitled_form.json"

----------------------------------------------------------------------------
(* Construction *)

FieldOps ==
    { "add_field_to_form", "remove_field_from_form",
      "duplicate_field_in_form", "move_field_up", "move_field_down" }

\* the dict read from the document at the path of the last load or import
LoadedData ==
    json_load(files[IF call.op = "load_form"
                    THEN in_forms_dir(returned.target)
                    ELSE returned.target],
              ObjectOf(FormModelSchema))

\* a dict supplies no entry of a list: the key is missing or the list empty
SuppliesNone(data, key) == key \notin DOMAIN data \/ data[key] = << >>

\* C21, the forms: every form that was constructed, created, loaded or
\* imported, and edited afterwards, holds at least one notification and one
\* confirmation; where the document or the caller supplied none, it is the
\* default one.
C21_State ==
    /\ Len(settings.notifications) >= 1
    /\ Len(settings.confirmations) >= 1
    /\ call.op = "create_new_form" =>
           /\ settings.notifications = << NotificationSettings >>
           /\ settings.confirmations = << ConfirmationSettings >>
    /\ (call.op \in { "load_form", "import_form" } /\ result = OK) =>
           /\ SuppliesNone(LoadedData, "notifications") =>
                  settings.notifications = << NotificationSettings >>
           /\ SuppliesNone(LoadedData, "confirmations") =>
                  settings.confirmations = << ConfirmationSettings >>
           /\ ~SuppliesNone(LoadedData, "notifications") =>
                  Len(settings.notifications)
                      = Len(LoadedData.notifications)

\* C21, the steps: a field mutation call leaves both lists as they were
C21_Step ==
    (call.op = "none" /\ call'.op \in FieldOps) =>
        /\ settings'.notifications = settings.notifications
        /\ settings'.confirmations = settings.confirmations

\* C21: every Form produced by direct construction, create_new_form,
\* load_form or import_form holds at least one notification and at least
\* one confirmation, a default one being inserted when the caller or the
\* document supplies none, and add, remove, duplicate and the two moves
\* leave the notification and confirmation lists unchanged.
C21_DefaultsInsertedAndKept == []C21_State /\ [][C21_Step]_vars

\* a form loaded from a document with empty lists got the default entries
C21_Witness ==
    /\ call.op = "load_form"
    /\ returned.target = "empty.json"
    /\ result = OK
    /\ LoadedData.notifications = << >>
    /\ settings.notifications = << NotificationSettings >>
    /\ settings.confirmations = << ConfirmationSettings >>

\* C22: create_new_form(title) returns a Form with an empty field sequence
\* whose title is the trimmed argument, or "Untitled Form" when the
\* argument is absent, empty or only whitespace; so the title is never
\* blank.
C22_NewFormTitle ==
    call.op = "create_new_form" =>
        /\ fields = << >>
        /\ title = IF returned.target = NoneStr \/ BlankText(returned.target)
                   THEN "Untitled Form"
                   ELSE strip(returned.target)
        /\ ~BlankText(title)
        /\ SubSeq(title, 1, 1) # " "
        /\ SubSeq(title, Len(title), Len(title)) # " "

\* create_new_form(" Test ") returned a form titled "Test"
C22_Witness ==
    /\ call.op = "create_new_form"
    /\ returned.target = " Test "
    /\ title = "Test"
    /\ fields = << >>

----------------------------------------------------------------------------
(* Conversion and publish requests *)

\* publish_form sent a write request
Sent == call.op = "publish_form" /\ site.requests # << >>

\* C23: the conversion keeps the fields and their order: the output field
\* list is as long as the field sequence of the form and entry i carries
\* the id, the label and the mapped type of field i; no field of a type of
\* the closed set is left out; and the form is as it was.
C23_ConversionKeepsFields ==
    /\ \A k \in 1..Len(fields) : fields[k].type \in DOMAIN type_mapping
    /\ Sent =>
           LET body == site.requests[1].body
           IN  /\ body.title = title
               /\ Len(body.fields) = Len(fields)
               /\ \A i \in 1..Len(fields) :
                      /\ body.fields[i].id = fields[i].id
                      /\ body.fields[i].label = fields[i].label
                      /\ body.fields[i].type = type_mapping[fields[i].type]
               /\ body = _convert_to_gravity_forms_format(
                             [CurrentForm EXCEPT !.id = DefaultSettings.id])
               /\ fields = pre

\* a form with a field of every type was converted and sent
C23_Witness ==
    /\ Sent
    /\ Len(fields) = Len(KindOrder)
    /\ \A i \in 1..Len(KindOrder) :
           site.requests[1].body.fields[i].type = KindOrder[i]

\* the site lists a form with the title of the current form
TitleListed == \E k \in 1..Len(site.forms) : site.forms[k].title = title

\* the index of the first such form
FirstListed ==
    CHOOSE k \in 1..Len(site.forms) :
        /\ site.forms[k].title = title
        /\ \A j \in 1..(k - 1) : site.forms[j].title # title

\* the requests of the step are one update of the first listed form
OneUpdate ==
    /\ Len(site'.requests) = 1
    /\ site'.requests[1].method = "PUT"
    /\ site'.requests[1].id = site.forms[FirstListed].id

\* the requests of the step are one create
OneCreate ==
    /\ Len(site'.requests) = 1
    /\ site'.requests[1].method = "POST"

\* C24 as stated: every publish_form call sends exactly one write request,
\* an update of the first listed form with the title when update_existing
\* is set and there is one, a create in every other case.
C24_Step ==
    call'.op = "publish_form" =>
        IF dialog.update_existing /\ TitleListed THEN OneUpdate ELSE OneCreate

C24_StepListed ==
    call'.op = "publish_form" =>
        IF result' = ListFailed
        THEN dialog.update_existing /\ site'.requests = << >>
        ELSE IF dialog.update_existing /\ TitleListed
             THEN OneUpdate
             ELSE OneCreate

----------------------------------------------------------------------------
(* The field factory *)

ThreeChoices ==
    << [text |-> "First Choice", value |-> "first", isSelected |-> FALSE],
       [text |-> "Second Choice", value |-> "second", isSelected |-> FALSE],
       [text |-> "Third Choice", value |-> "third", isSelected |-> FALSE] >>

\* what C25 says of a field that create_field built with the type
AsTheFactoryBuilds(field) ==
    /\ field.type \in { "select", "multiselect", "radio", "checkbox" } =>
           field.choices = Some(ThreeChoices)
    /\ field.type \notin { "select", "multiselect", "radio", "checkbox" } =>
           field.choices = NoneObj
    /\ field.type = "name" =>
           field.inputs # NoneObj /\ Len(field.inputs[1]) = 2
    /\ field.type = "address" =>
           field.inputs # NoneObj /\ Len(field.inputs[1]) = 6
    /\ field.type = "fileupload" => field.maxFileSize = 20
    /\ field.type \in { "html", "section", "page" } => field.displayOnly
    /\ field.type = "hidden" =>
           field.visibility = "hidden" /\ field.label = "Hidden Field"

\* the field the last add_field_to_form call built
AddedField == fields[index_of(fields, added.id) + 1]

\* C25: create_field(type, id) depends only on its arguments: a field built
\* for a type and an id is the same whatever the form and the calls before;
\* select, multiselect, radio and checkbox carry exactly the three choices,
\* name 2 sub-inputs and address 6, fileupload max size 20, html, section
\* and page displayOnly, hidden visibility "hidden" and label "Hidden
\* Field"; the other fields of the form are as they were.
C25_FactoryDefaults ==
    /\ \A k \in 1..Len(fields) :
           /\ AsTheFactoryBuilds(fields[k])
           /\ fields[k] = create_field(fields[k].type, fields[k].id)
    /\ (call.op = "add_field_to_form" /\ result = OK) =>
           /\ AddedField.type = call.field_type
           /\ AddedField.id = added.id
           /\ Len(fields) = Len(pre) + 1
           /\ \A k \in 1..Len(pre) :
                  \E j \in 1..Len(fields) : fields[j] = pre[k]

\* an address field was built next to a select field
C25_Witness ==
    /\ call.op = "add_field_to_form"
    /\ call.field_type = "address"
    /\ result = OK
    /\ Len(fields) = 2
    /\ \E k \in 1..2 : fields[k].type = "select"
    /\ Len(AddedField.inputs[1]) = 6

\* C26 as stated: from create_new_form with any title, after any sequence
\* of add, remove and move calls, validate_form returns an empty list.
C26_EngineKeepsValid == validate_form(CurrentForm).errors = << >>

\* C26 amended: from create_new_form with a title of at most 255
\* characters after trimming, after any sequence of add, remove and move
\* calls, validate_form returns an empty list; with a longer title it
\* returns the title error alone.  Every field satisfies the rules of its
\* type and no identifier repeats.
C26_EngineKeepsValidUnderTitleLimit ==
    /\ validate_form(CurrentForm).errors
           = IF TrimmedLen(title) <= TitleLimit
             THEN << >>
             ELSE << TitleTooLong >>
    /\ validate_form([CurrentForm EXCEPT !.title = "Survey"]).errors = << >>
    /\ \A j, k \in 1..Len(fields) : fields[j].id = fields[k].id => j = k

\* a file upload field was added in front of a select field added after a
\* removal, and the form is valid
C26_Witness ==
    /\ TrimmedLen(title) <= TitleLimit
    /\ call.op = "add_field_to_form"
    /\ Len(fields) = 2
    /\ fields[1].type = "fileupload"
    /\ fields[1].id = 3
    /\ fields[2].type = "select"
    /\ validate_form(CurrentForm).errors = << >>

----------------------------------------------------------------------------
(* save_form and the files that exist *)

\* the file name a save_form call asks for, before the existing files are
\* looked at
AskedName ==
    LET given == IF returned.target = NoneStr
                 THEN filename_from_title(returned.form[1].title)
                 ELSE returned.target
    IN  IF endswith(given, ".json") THEN given ELSE given \o ".json"

\* the asked name with _k put before the extension
Numbered(k) == path_stem(AskedName) \o "_" \o ToString(k) \o ".json"

\* C27: each successful save_form call writes the form under a file name
\* that did not exist before the call and returns that name: the asked name
\* when it is free, else the first of _1, _2, ... that is free; every file
\* that existed keeps its content and the directory holds one file more.
C27_SaveNeverOverwrites ==
    (call.op = "save_form" /\ result = OK) =>
        LET before == returned.files
            path   == in_forms_dir(returned.filename)
        IN  /\ returned.filename # NoneStr
            /\ path \notin DOMAIN before
            /\ DOMAIN files = DOMAIN before \cup { path }
            /\ Cardinality(DOMAIN files) = Cardinality(DOMAIN before) + 1
            /\ \A q \in DOMAIN before : files[q] = before[q]
            /\ files[path] = document_of(returned.form[1])
            /\ \/ /\ returned.filename = AskedName
                  /\ in_forms_dir(AskedName) \notin DOMAIN before
               \/ /\ in_forms_dir(AskedName) \in DOMAIN before
                  /\ \E k \in 1..(MaxFiles + 2) :
                         /\ returned.filename = Numbered(k)
                         /\ \A j \in 1..(k - 1) :
                                in_forms_dir(Numbered(j)) \in DOMAIN before

\* the asked name and its copies _1 and _2 existed: the form went to _3
C27_Witness ==
    /\ call.op = "save_form"
    /\ result = OK
    /\ returned.filename = "Survey_3.json"
    /\ Cardinality(DOMAIN returned.files) = 3
    /\ returned.files[in_forms_dir("Survey_2.json")]
           = files[in_forms_dir("Survey_2.json")]

----------------------------------------------------------------------------
(* The client of the publish dialog *)

\* C28: under every interleaving of Test Connection clicks, results of the
\* background test and Publish clicks, each publish_form call runs with a
\* client whose own connection test has completed successfully, never with
\* a client that is still being tested or whose test failed.
C28_Step ==
    call'.op = "publish_form" => dialog.wp_client = "passed"

C28_PublishedThroughTestedClient == [][C28_Step]_vars

----------------------------------------------------------------------------
(* The field editor panel *)

\* the field the panel edits, after and before the last handler
Selected == fields[panel.current_field + 1]
SelectedBefore == pre[panel.current_field + 1]

\* C29: with a choice-kind field selected, add_choice appends exactly one
\* choice to the choice list of that field whatever the length of the list,
\* also after remove_choice calls that emptied it.
C29_AddChoiceAlwaysAppends ==
    (call.op = "add_choice" /\ Selected.type \in ChoiceKinds) =>
        /\ Selected.choices # NoneObj
        /\ SelectedBefore.choices # NoneObj
        /\ Len(Selected.choices[1]) = Len(SelectedBefore.choices[1]) + 1
        /\ SubSeq(Selected.choices[1], 1, Len(SelectedBefore.choices[1]))
               = SelectedBefore.choices[1]

\* the attribute of a field that update_field reads from a control
Bound ==
    [ label_edit              |-> "label",
      admin_label_edit        |-> "adminLabel",
      description_edit        |-> "description",
      required_check          |-> "isRequired",
      size_combo              |-> "size",
      css_class_edit          |-> "cssClass",
      placeholder_edit        |-> "placeholder",
      default_value_edit      |-> "defaultValue",
      max_length_spin         |-> "maxLength",
      max_file_size_spin      |-> "maxFileSize",
      allowed_extensions_edit |-> "allowedExtensions",
      multiple_files_check    |-> "multipleFiles",
      content_edit            |-> "content" ]

\* C30: set_field changes no attribute of any field of the form, and
\* update_field changes only the attribute bound to the edited control, on
\* the selected field: maxFileSize and maxLength of a field that is not a
\* file upload, and every attribute of every other field, keep their
\* values, whatever field was selected before.
C30_EditorFrame ==
    /\ call.op = "set_field" => fields = pre
    /\ call.op = "update_field" =>
           /\ \A k \in 1..Len(fields) :
                  k # panel.current_field + 1 => fields[k] = pre[k]
           /\ \A attribute \in DOMAIN Selected :
                  attribute # Bound[panel.edited] =>
                      Selected[attribute] = SelectedBefore[attribute]

====
